---- MODULE Spec2Model ----
(***************************************************************************)
(* The functorch transform interpreter stack (DynamicLayer.cpp): the       *)
(* thread-local Layer Stack, the saved ambient dispatch-key snapshot, the  *)
(* front and back interceptors and the wrapper discipline, as one state    *)
(* machine.  An intercepted invocation is a chain of interceptor frames;   *)
(* each handler is split at its op.callBoxed into an entry half (up to the *)
(* call) and an exit half (its scoped guards' destructors and whatever     *)
(* follows the call).                                                      *)
(***************************************************************************)
EXTENDS Integers, Sequences, FiniteSets, TLC

\* ------------------------------------------------------------------ bounds
\* deepest Layer Stack explored
MaxDepth == 2
\* layers created over a whole run (one liveness cell each)
MaxLayers == 3
\* wrappers on a tensor the caller passes in
MaxWrap == 2
\* Layer Stack depth of a thread, and layers constructed, with two threads
MaxThreadDepth == 2
MaxThreadLayers == 2
\* interceptor frames the thread's call stack has room for
MaxFrames == 12

\* ------------------------------------------------------------ dispatch keys
kDynamicLayerFrontModeKey == "FuncTorchDynamicLayerFrontMode"
kDynamicLayerBackModeKey == "FuncTorchDynamicLayerBackMode"
kGradWrapperKey == "FuncTorchGradWrapper"
kBatchedKey == "FuncTorchBatched"
kVmapModeKey == "FuncTorchVmapMode"
ADInplaceOrView == "ADInplaceOrView"
autograd_dispatch_keyset == {"AutogradCPU", "AutogradOther"}
\* DispatchKey::Autograd, the alias key naming a differentiation layer
Autograd == "Autograd"
Undefined == "Undefined"
\* a key that is neither Autograd nor kBatchedKey, accepted by initAndPushDynamicLayer
OtherKey == "CPU"

all_dynlayer_keyset ==
  {kDynamicLayerFrontModeKey, kDynamicLayerBackModeKey, kGradWrapperKey,
   kBatchedKey, ADInplaceOrView} \cup autograd_dispatch_keyset

\* optional<T>: the empty sequence is nullopt, <<v>> holds v
nullopt == <<>>
has_value(o) == Len(o) = 1
value(o) == o[1]

VARIABLES
  dynamicLayerStack,   \* FuncTorchTLS::dynamicLayerStack, bottom first
  prev_local_keyset_,  \* FuncTorchTLS::prev_local_keyset_, an optional
  local_keyset,        \* c10's thread-local LocalDispatchKeySet
  lifeHandles,         \* the shared bool cells, one per DynamicLayer constructed
  frames,              \* the interceptor frames of the invocation in flight, outermost first
  ctl,                 \* idle | call | return | throw | aborted
  error,               \* none | mutation | op | internal
  op,                  \* the schema of the operation invoked last
  stack,               \* the operand stack (torch::jit::Stack) of that invocation
  trace,               \* what the invocation did, for the properties only
  ambient,             \* the thread's key set before any transform, for the properties only
  threads,             \* which thread is running, and the other thread's state
  grad_mode,           \* c10::GradMode::is_enabled(), thread-local
  saved                \* the copy a caller took of getDynamicLayerStack(), an optional

vars == <<dynamicLayerStack, prev_local_keyset_, local_keyset, lifeHandles,
          frames, ctl, error, op, stack, trace, ambient, threads, grad_mode, saved>>

\* ------------------------------------------------------- c10 thread-local keys
tls_set_dispatch_key_included(ks, key, desired_state) ==
  IF desired_state
  THEN [ks EXCEPT !.included = @ \cup {key}]
  ELSE [ks EXCEPT !.included = @ \ {key}]

tls_is_dispatch_key_included(ks, key) == key \in ks.included

setDynamicLayerFrontBackKeysIncluded(ks, included) ==
  tls_set_dispatch_key_included(
    tls_set_dispatch_key_included(ks, kDynamicLayerFrontModeKey, included),
    kDynamicLayerBackModeKey, included)

areTransformsActive == tls_is_dispatch_key_included(local_keyset, kDynamicLayerBackModeKey)

\* a reset that only removes the functorch-tracked keys
resetFunctorchLocalDispatchKeySetNoAddBack(ks, prev) ==
  [included |-> ks.included \ all_dynlayer_keyset,
   excluded |-> ks.excluded \ all_dynlayer_keyset]

\* The key set resetFunctorchLocalDispatchKeySetRAII forces; it is only called
\* with prev holding a value (the callers test the assertion first).
resetFunctorchLocalDispatchKeySet(ks, prev) ==
  [included |-> (ks.included \ all_dynlayer_keyset)
                  \cup (value(prev).included \cap all_dynlayer_keyset),
   excluded |-> (ks.excluded \ all_dynlayer_keyset)
                  \cup (value(prev).excluded \cap all_dynlayer_keyset)]

\* ------------------------------------------------------------- Layer Stack
\* DynamicLayer's constructor; life_handle is the index of its cell in lifeHandles
DynamicLayer(key, layerId, batchSize, prev_grad_mode, life_handle) ==
  [key |-> key, layerId |-> layerId, batchSize |-> batchSize,
   prevGradMode |-> prev_grad_mode, life_handle |-> life_handle]

\* the constructor's assertion
DynamicLayerCtorOk(key, prev_grad_mode) ==
  key = Autograd => has_value(prev_grad_mode)

\* A fresh cell; level records the level of the layer it is made for.
NewLifeHandle(level) == [alive |-> TRUE, level |-> level]

back(s) == s[Len(s)]
pop_back(s) == SubSeq(s, 1, Len(s) - 1)

\* a pop that leaves the mode keys as they are
popDynamicLayerKeepsKeys(dls, ks) ==
  IF Len(dls) = 0 \/ back(dls).key = Undefined
  THEN [err |-> TRUE, result |-> <<>>, dls |-> dls, ks |-> ks]
  ELSE [err |-> FALSE, result |-> <<back(dls)>>, dls |-> pop_back(dls), ks |-> ks]

\* popDynamicLayer: [err, result, dls, ks]
popDynamicLayer(dls, ks) ==
  IF Len(dls) = 0 \/ back(dls).key = Undefined
  THEN [err |-> TRUE, result |-> <<>>, dls |-> dls, ks |-> ks]
  ELSE [err |-> FALSE,
        result |-> <<back(dls)>>,
        dls |-> pop_back(dls),
        ks |-> IF Len(dls) = 1
               THEN setDynamicLayerFrontBackKeysIncluded(ks, FALSE)
               ELSE ks]

\* a push that appends before it checks the level
pushDynamicLayerAppendsFirst(dynamic_layer, dls, ks, prev) ==
  LET was_empty == Len(dls) = 0
      layerId == 1 + Len(dls)
  IN IF layerId # dynamic_layer.layerId \/ (was_empty /\ ~has_value(prev))
     THEN [err |-> TRUE, dls |-> Append(dls, dynamic_layer), ks |-> ks]
     ELSE [err |-> FALSE,
           dls |-> Append(dls, dynamic_layer),
           ks |-> IF was_empty
                  THEN setDynamicLayerFrontBackKeysIncluded(ks, TRUE)
                  ELSE ks]

\* a push that puts the layer under the others
pushDynamicLayerFront(dynamic_layer, dls, ks, prev) ==
  [err |-> 1 + Len(dls) # dynamic_layer.layerId,
   dls |-> <<dynamic_layer>> \o dls,
   ks |-> IF Len(dls) = 0 THEN setDynamicLayerFrontBackKeysIncluded(ks, TRUE) ELSE ks]

\* pushDynamicLayer: [err, dls, ks]
pushDynamicLayer(dynamic_layer, dls, ks, prev) ==
  LET was_empty == Len(dls) = 0
      layerId == 1 + Len(dls)
  IN IF layerId # dynamic_layer.layerId
     THEN [err |-> TRUE, dls |-> dls, ks |-> ks]
     ELSE IF was_empty /\ ~has_value(prev)
     THEN [err |-> TRUE, dls |-> Append(dls, dynamic_layer), ks |-> ks]
     ELSE [err |-> FALSE,
           dls |-> Append(dls, dynamic_layer),
           ks |-> IF was_empty
                  THEN setDynamicLayerFrontBackKeysIncluded(ks, TRUE)
                  ELSE ks]

\* getLifeHandleForLevel: <<>> when an assertion fails, <<cell>> otherwise
getLifeHandleForLevel(dls, level) ==
  IF level >= 1 /\ Len(dls) > level - 1
  THEN <<dls[level].life_handle>>
  ELSE <<>>

\* ------------------------------------------------------ values and wrappers
\* An IValue: a tensor (base names the underlying value, w its wrappers,
\* outermost first) or a non-tensor.
Tensor(wrappers, base) ==
  [t |-> "Tensor", w |-> wrappers, base |-> base, elems |-> <<>>]
UndefinedTensor == Tensor(<<>>, "undefined")
Scalar(name) == [t |-> "Scalar", w |-> <<>>, base |-> name, elems |-> <<>>]
\* a c10::List of IValues (Tensor[] and Tensor?[] arguments)
List(elems) == [t |-> "List", w |-> <<>>, base |-> "list", elems |-> elems]
isTensor(ivalue) == ivalue.t = "Tensor"
isList(ivalue) == ivalue.t = "List"
defined(tensor) == tensor.base # "undefined"

\* TensorWrapper and BatchedTensorImpl; life is the index of the shared cell
TensorWrapper(lvl, life) == [kind |-> "Grad", level |-> lvl, life |-> life]
BatchedTensorImpl(lvl) == [kind |-> "Batched", level |-> lvl, life |-> 0]

maybeGetTensorWrapper(tensor) ==
  IF Len(tensor.w) > 0 /\ tensor.w[1].kind = "Grad" THEN <<tensor.w[1]>> ELSE <<>>

maybeGetBatchedImpl(tensor) ==
  IF Len(tensor.w) > 0 /\ tensor.w[1].kind = "Batched" THEN <<tensor.w[1]>> ELSE <<>>

is_alive(wrapper) == lifeHandles[wrapper.life].alive

\* TensorWrapper::level(): an optional, empty once the wrapper is dead
level(wrapper) == IF is_alive(wrapper) THEN <<wrapper.level>> ELSE nullopt

\* TensorWrapper::value() and BatchedTensorImpl::value(): the wrapped tensor
inner(tensor) == [tensor EXCEPT !.w = Tail(@)]

\* the result of a function that may throw: err, or the tensor t
Ok(tensor) == [err |-> FALSE, t |-> tensor]
Throws(tensor) == [err |-> TRUE, t |-> tensor]

\* makeTensorWrapper(tensor, level): stamps the cell of the layer at that level
makeTensorWrapper(tensor, lvl, dls) ==
  LET life == getLifeHandleForLevel(dls, lvl)
  IN IF has_value(life)
     THEN Ok([tensor EXCEPT !.w = <<TensorWrapper(lvl, value(life))>> \o @])
     ELSE Throws(tensor)

\* a materializeGradWrappers that wraps at the current level whatever the
\* tensor's wrapper is
materializeGradWrappersAlways(tensor, dls) ==
  IF ~defined(tensor) THEN Ok(tensor)
  ELSE IF Len(dls) = 0 THEN Throws(tensor)
  ELSE IF back(dls).key # Autograd THEN Ok(tensor)
  ELSE makeTensorWrapper(tensor, back(dls).layerId, dls)

\* a materializeGradWrappers that does not look at the top layer's kind
materializeGradWrappersAnyKey(tensor, dls) ==
  IF ~defined(tensor) THEN Ok(tensor)
  ELSE IF Len(dls) = 0 THEN Throws(tensor)
  ELSE LET cur_level == back(dls).layerId
           wrapper == maybeGetTensorWrapper(tensor)
       IN IF ~has_value(wrapper) THEN makeTensorWrapper(tensor, cur_level, dls)
          ELSE IF ~has_value(level(value(wrapper))) THEN Throws(tensor)
          ELSE IF value(level(value(wrapper))) > cur_level THEN Throws(tensor)
          ELSE IF value(level(value(wrapper))) = cur_level THEN Ok(tensor)
          ELSE makeTensorWrapper(tensor, cur_level, dls)

materializeGradWrappers(tensor, dls) ==
  IF ~defined(tensor) THEN Ok(tensor)
  ELSE IF Len(dls) = 0 THEN Throws(tensor)
  ELSE IF back(dls).key # Autograd THEN Ok(tensor)
  ELSE LET cur_level == back(dls).layerId
           wrapper == maybeGetTensorWrapper(tensor)
       IN IF ~has_value(wrapper) THEN makeTensorWrapper(tensor, cur_level, dls)
          ELSE IF ~has_value(level(value(wrapper))) THEN Throws(tensor)
          ELSE IF value(level(value(wrapper))) > cur_level THEN Throws(tensor)
          ELSE IF value(level(value(wrapper))) = cur_level THEN Ok(tensor)
          ELSE makeTensorWrapper(tensor, cur_level, dls)

unwrapIfDead(tensor) ==
  LET wrapped == maybeGetTensorWrapper(tensor)
  IN IF ~has_value(wrapped) THEN tensor
     ELSE IF is_alive(value(wrapped)) THEN tensor
     ELSE inner(tensor)

\* the front interceptor's lambda: unwrap dead wrappers, materialize live ones
maybeTransformGradWrappers(tensor) ==
  materializeGradWrappers(unwrapIfDead(tensor), dynamicLayerStack)

\* an unwrap that also takes off a wrapper of a lower level
unwrapBelowToo(tensor, cur_level) ==
  IF ~defined(tensor) THEN Ok(tensor)
  ELSE LET maybe_tensor_wrapper == maybeGetTensorWrapper(tensor)
       IN IF ~has_value(maybe_tensor_wrapper) THEN Ok(tensor)
          ELSE IF ~has_value(level(value(maybe_tensor_wrapper))) THEN Throws(tensor)
          ELSE IF value(level(value(maybe_tensor_wrapper))) > cur_level THEN Throws(tensor)
          ELSE Ok(inner(tensor))

\* the back interceptor's unwrap lambda
unwrap(tensor, cur_level) ==
  IF ~defined(tensor) THEN Ok(tensor)
  ELSE LET maybe_tensor_wrapper == maybeGetTensorWrapper(tensor)
       IN IF ~has_value(maybe_tensor_wrapper) THEN Ok(tensor)
          ELSE IF ~has_value(level(value(maybe_tensor_wrapper))) THEN Throws(tensor)
          ELSE IF value(level(value(maybe_tensor_wrapper))) > cur_level THEN Throws(tensor)
          ELSE IF value(level(value(maybe_tensor_wrapper))) = cur_level THEN Ok(inner(tensor))
          ELSE Ok(tensor)

\* the back interceptor's wrap lambda
wrap(tensor, cur_level, dls) ==
  IF ~defined(tensor) THEN Ok(tensor) ELSE makeTensorWrapper(tensor, cur_level, dls)

\* sanityCheckStack's lambda
sanityCheck(tensor) ==
  IF has_value(maybeGetTensorWrapper(tensor)) \/ has_value(maybeGetBatchedImpl(tensor))
  THEN Throws(tensor) ELSE Ok(tensor)

\* foreachTensorInplace's list branch, given func's result rs[j] for each
\* element: the argument becomes a copy of the list holding the results; the
\* copy is dropped when func throws
onList(ivalue, rs) ==
  IF \E j \in 1..Len(rs) : rs[j].err THEN Throws(ivalue)
  ELSE Ok([ivalue EXCEPT !.elems = [j \in 1..Len(rs) |-> rs[j].t]])

\* foreachTensorInplace over args[begin+1 .. end] (0-based begin, end as in the
\* source), given each index's func result in r: the slots before the first
\* throwing one are replaced, the rest are left.  [err, args]
foreachTensorInplace(args, begin, end, r) ==
  LET range == {i \in (begin + 1)..end : isTensor(args[i]) \/ isList(args[i])}
      bad == {i \in range : r[i].err}
      stop == IF bad = {} THEN end + 1
              ELSE CHOOSE i \in bad : \A j \in bad : i <= j
  IN [err |-> bad # {},
      args |-> [i \in 1..Len(args) |->
                  IF i \in range /\ i < stop THEN r[i].t ELSE args[i]]]

\* ---------------------------------------------------------------- schemas
\* A FunctionSchema: per argument and per return its alias annotation,
\* "none", "alias" (a) or "write" (a!).
Schema(name, args, rets) == [name |-> name, args |-> args, rets |-> rets]
Ops ==
  { Schema("add", <<"none", "none">>, <<"none">>),
    Schema("add_", <<"write", "none">>, <<"write">>),
    Schema("abs_out", <<"none", "write">>, <<"write">>),
    Schema("set_", <<"write", "alias">>, <<"write">>) }

is_mutable(schema) == \E i \in 1..Len(schema.args) : schema.args[i] = "write"

isInplaceOp(schema) ==
  IF ~is_mutable(schema) \/ Len(schema.rets) # 1 THEN FALSE
  ELSE IF schema.args[1] # "write" THEN FALSE
  ELSE IF \E i \in 2..Len(schema.args) : schema.args[i] # "none" THEN FALSE
  ELSE schema.rets[1] = "write"

\* torch::jit::last(stack, n) as the index range of the last n entries
ArgsFront(stk, o) == Len(stk) - Len(o.args)
last(stk, n) == SubSeq(stk, Len(stk) - n + 1, Len(stk))

\* the mutation test without its unwrapIfDead
checkForInvalidMutationOnCapturesNoUnwrap(o, stk, dls) ==
  IF back(dls).key # Autograd THEN FALSE
  ELSE IF ~isInplaceOp(o) THEN FALSE
  ELSE LET wrapper == maybeGetTensorWrapper(last(stk, Len(o.args))[1])
       IN ~( /\ has_value(wrapper)
             /\ has_value(level(value(wrapper)))
             /\ value(level(value(wrapper))) = back(dls).layerId )

\* checkForInvalidMutationOnCaptures: TRUE when it raises the mutation error
checkForInvalidMutationOnCaptures(o, stk, dls) ==
  IF back(dls).key # Autograd THEN FALSE
  ELSE IF ~isInplaceOp(o) THEN FALSE
  ELSE LET args == last(stk, Len(o.args))
           mutated_arg == unwrapIfDead(args[1])
           cur_level == back(dls).layerId
           wrapper == maybeGetTensorWrapper(mutated_arg)
       IN ~( /\ has_value(wrapper)
             /\ has_value(level(value(wrapper)))
             /\ value(level(value(wrapper))) = cur_level )

\* a router that does not take the back interceptor's key out of the exclude set
getIncludeExcludeSetsForExcludesBack(key) ==
  LET exclude == all_dynlayer_keyset
  IN IF key = Autograd
     THEN [err |-> FALSE, include |-> {},
           exclude |-> (exclude \ autograd_dispatch_keyset) \ {ADInplaceOrView}]
     ELSE IF key = kBatchedKey
     THEN [err |-> FALSE, include |-> {kVmapModeKey},
           exclude |-> exclude \ {kBatchedKey}]
     ELSE [err |-> TRUE, include |-> {}, exclude |-> exclude]

\* a router that leaves the front interceptor's key on
getIncludeExcludeSetsForKeepsFront(key) ==
  LET exclude == all_dynlayer_keyset
                   \ {kDynamicLayerBackModeKey, kDynamicLayerFrontModeKey}
  IN IF key = Autograd
     THEN [err |-> FALSE, include |-> {},
           exclude |-> (exclude \ autograd_dispatch_keyset) \ {ADInplaceOrView}]
     ELSE IF key = kBatchedKey
     THEN [err |-> FALSE, include |-> {kVmapModeKey},
           exclude |-> exclude \ {kBatchedKey}]
     ELSE [err |-> TRUE, include |-> {}, exclude |-> exclude]

\* a router that leaves kBatchedKey excluded for a batching layer
getIncludeExcludeSetsForKeepsBatched(key) ==
  LET exclude == all_dynlayer_keyset \ {kDynamicLayerBackModeKey}
  IN IF key = Autograd
     THEN [err |-> FALSE, include |-> {},
           exclude |-> (exclude \ autograd_dispatch_keyset) \ {ADInplaceOrView}]
     ELSE IF key = kBatchedKey
     THEN [err |-> FALSE, include |-> {kVmapModeKey}, exclude |-> exclude]
     ELSE [err |-> TRUE, include |-> {}, exclude |-> exclude]

\* getIncludeExcludeSetsFor: [err, include, exclude]
getIncludeExcludeSetsFor(key) ==
  LET exclude == all_dynlayer_keyset \ {kDynamicLayerBackModeKey}
  IN IF key = Autograd
     THEN [err |-> FALSE, include |-> {},
           exclude |-> (exclude \ autograd_dispatch_keyset) \ {ADInplaceOrView}]
     ELSE IF key = kBatchedKey
     THEN [err |-> FALSE, include |-> {kVmapModeKey},
           exclude |-> exclude \ {kBatchedKey}]
     ELSE [err |-> TRUE, include |-> {}, exclude |-> exclude]

batchedAtCurrentLevel(tensor, dls) ==
  LET batched == maybeGetBatchedImpl(tensor)
  IN IF ~has_value(batched) THEN FALSE
     ELSE value(batched).level = back(dls).layerId

\* anyTensors(args, pred), given pred's value at each index
anyTensors(args, pred) ==
  \E i \in 1..Len(args) :
    \/ isTensor(args[i]) /\ pred[i][1]
    \/ isList(args[i]) /\ \E j \in 1..Len(args[i].elems) :
                            isTensor(args[i].elems[j]) /\ pred[i][j]

\* batchedAtCurrentLevel asked of the plain tensor arguments only
batchedAtCurrentLevelOfPlain(args, dls) ==
  [i \in 1..Len(args) |->
     IF isList(args[i])
     THEN [j \in 1..Len(args[i].elems) |-> FALSE]
     ELSE <<isTensor(args[i]) /\ batchedAtCurrentLevel(args[i], dls)>>]

\* batchedAtCurrentLevel at each tensor of args: by index, and by element for a list
batchedAtCurrentLevelOf(args, dls) ==
  [i \in 1..Len(args) |->
     IF isList(args[i])
     THEN [j \in 1..Len(args[i].elems) |->
             isTensor(args[i].elems[j]) /\ batchedAtCurrentLevel(args[i].elems[j], dls)]
     ELSE <<isTensor(args[i]) /\ batchedAtCurrentLevel(args[i], dls)>>]

\* ------------------------------------------------------------- the dispatcher
\* The keys a call is dispatched on: those of its tensor arguments and the
\* thread's included keys, less the excluded ones.
KeySetOf(ivalue) ==
  IF ~isTensor(ivalue) THEN {}
  ELSE IF has_value(maybeGetBatchedImpl(ivalue)) THEN {kBatchedKey, "CPU"}
  ELSE IF has_value(maybeGetTensorWrapper(ivalue))
  THEN {kGradWrapperKey, "CPU"} \cup autograd_dispatch_keyset
  ELSE {"CPU"} \cup autograd_dispatch_keyset

\* the tensors of a list argument count as the argument's
KeySetOfArg(ivalue) ==
  IF isList(ivalue)
  THEN UNION {KeySetOf(ivalue.elems[j]) : j \in 1..Len(ivalue.elems)}
  ELSE KeySetOf(ivalue)

DispatchKeySet(args, ks) ==
  ((UNION {KeySetOfArg(args[i]) : i \in 1..Len(args)}) \cup ks.included) \ ks.excluded

\* op.callBoxed: the handler of the highest-priority key.  The kernels of the
\* keys between (autograd, ADInplaceOrView, ...) pass the call on unchanged.
callBoxed(args, ks) ==
  LET k == DispatchKeySet(args, ks)
  IN IF kDynamicLayerFrontModeKey \in k THEN "Front"
     ELSE IF kBatchedKey \in k THEN "Batched"
     ELSE IF kDynamicLayerBackModeKey \in k THEN "Back"
     ELSE "Kernel"

\* ------------------------------------------------------------------- frames
Frame(fn, saved_keyset, exclude, include, layer, cur_level, cur_key) ==
  [fn |-> fn, saved_keyset_ |-> saved_keyset, exclude_ |-> exclude,
   include_ |-> include, layer_ |-> layer, cur_level |-> cur_level,
   cur_key |-> cur_key, guard_ |-> nullopt,
   entry |-> [dls |-> dynamicLayerStack, ks |-> local_keyset,
              size |-> Len(stack), grad |-> grad_mode]]

\* How control leaves a handler whose remaining frames are fs: an internal
\* assertion that reaches the caller ends the run.
Settle(c, err, fs) ==
  IF c = "throw" /\ err = "internal" /\ fs = <<>> THEN "aborted" ELSE c

\* an exception thrown by the handler that was just called
Raise(err) ==
  /\ error' = err
  /\ ctl' = Settle("throw", err, frames)

\* sanityCheckStack's lambda applied to the tensors of args, by index
sanityCheckStack(args) ==
  [i \in 1..Len(args) |->
     IF isTensor(args[i]) THEN sanityCheck(args[i])
     ELSE IF isList(args[i])
     THEN onList(args[i], [j \in 1..Len(args[i].elems) |->
                             IF isTensor(args[i].elems[j])
                             THEN sanityCheck(args[i].elems[j])
                             ELSE Ok(args[i].elems[j])])
     ELSE Ok(args[i])]

\* maybeTransformGradWrappers applied to the tensors of args, by index
transformGradWrappers(args) ==
  [i \in 1..Len(args) |->
     IF isTensor(args[i]) THEN maybeTransformGradWrappers(args[i])
     ELSE IF isList(args[i])
     THEN onList(args[i], [j \in 1..Len(args[i].elems) |->
                             IF isTensor(args[i].elems[j])
                             THEN maybeTransformGradWrappers(args[i].elems[j])
                             ELSE Ok(args[i].elems[j])])
     ELSE Ok(args[i])]

\* the back interceptor's unwrap applied to the tensors of args, by index
unwrapArgs(args, cur_level) ==
  [i \in 1..Len(args) |->
     IF isTensor(args[i]) THEN unwrap(args[i], cur_level)
     ELSE IF isList(args[i])
     THEN onList(args[i], [j \in 1..Len(args[i].elems) |->
                             IF isTensor(args[i].elems[j])
                             THEN unwrap(args[i].elems[j], cur_level)
                             ELSE Ok(args[i].elems[j])])
     ELSE Ok(args[i])]

\* a wrap of the returns made while the layer is still popped
wrapRetsWhilePopped(args, cur_level, dls) ==
  [i \in 1..Len(args) |->
     IF isTensor(args[i]) THEN wrap(args[i], cur_level, pop_back(dls))
     ELSE IF isList(args[i])
     THEN onList(args[i], [j \in 1..Len(args[i].elems) |->
                             IF isTensor(args[i].elems[j])
                             THEN wrap(args[i].elems[j], cur_level, pop_back(dls))
                             ELSE Ok(args[i].elems[j])])
     ELSE Ok(args[i])]

\* a wrap that leaves the returns as the call left them
wrapRetsLeavesBare(args, cur_level, dls) ==
  [i \in 1..Len(args) |-> Ok(args[i])]

\* the back interceptor's wrap applied to the tensors of args, by index
wrapRets(args, cur_level, dls) ==
  [i \in 1..Len(args) |->
     IF isTensor(args[i]) THEN wrap(args[i], cur_level, dls)
     ELSE IF isList(args[i])
     THEN onList(args[i], [j \in 1..Len(args[i].elems) |->
                             IF isTensor(args[i].elems[j])
                             THEN wrap(args[i].elems[j], cur_level, dls)
                             ELSE Ok(args[i].elems[j])])
     ELSE Ok(args[i])]

\* the caller is between calls
AtTopLevel == frames = <<>> /\ ctl = "idle"
\* the invocation's result or exception has reached the caller
Completed == frames = <<>> /\ ctl \in {"return", "throw"}

NoOp == [name |-> "none", args |-> <<>>, rets |-> <<>>]
NoTrace == [entry |-> <<>>, body |-> <<>>, bodies |-> 0, fronts |-> <<>>]

\* initAndPushDynamicLayer's snapshot of the thread's keys: taken when the
\* stack was empty, kept otherwise
\* a snapshot taken again by every push
SnapshotOnEveryPush(was_empty, ks, prev) == <<ks>>

SnapshotOnPush(was_empty, ks, prev) == IF was_empty THEN <<ks>> ELSE prev

\* popDynamicLayerAndDeleteMetadata's clearing of the snapshot
SnapshotOnPop(is_empty, prev) == IF is_empty THEN nullopt ELSE prev

\* an exit that leaves the life handle as it is
DeleteMetadataSkipped(handles, result) == handles

\* *result.lifeHandle() = false
DeleteMetadata(handles, result) ==
  [handles EXCEPT ![result.life_handle].alive = FALSE]

\* initAndPushDynamicLayer, called by a transform's entry
initAndPushDynamicLayer(key, batch_size, prev_grad_mode) ==
  /\ AtTopLevel
  /\ Len(dynamicLayerStack) < MaxDepth
  /\ Len(lifeHandles) < MaxLayers
  /\ LET was_empty == Len(dynamicLayerStack) = 0
         prev == SnapshotOnPush(was_empty, local_keyset, prev_local_keyset_)
         layerId == 1 + Len(dynamicLayerStack)
         rejected == \/ ~has_value(prev)
                     \/ key = Undefined
                     \/ key = "Batched"
                     \/ (key = Autograd /\ ~has_value(prev_grad_mode))
                     \/ ~DynamicLayerCtorOk(key, prev_grad_mode)
         layer == DynamicLayer(key, layerId, batch_size, prev_grad_mode,
                               Len(lifeHandles) + 1)
         pushed == pushDynamicLayer(layer, dynamicLayerStack, local_keyset, prev)
     IN /\ prev_local_keyset_' = prev
        /\ IF rejected
           THEN /\ ctl' = "aborted" /\ error' = "internal"
                /\ UNCHANGED <<dynamicLayerStack, local_keyset, lifeHandles>>
           ELSE /\ lifeHandles' = Append(lifeHandles, NewLifeHandle(layerId))
                /\ dynamicLayerStack' = pushed.dls
                /\ local_keyset' = pushed.ks
                /\ ctl' = IF pushed.err THEN "aborted" ELSE "idle"
                /\ error' = IF pushed.err THEN "internal" ELSE "none"
  /\ frames' = <<>> /\ op' = NoOp /\ stack' = <<>> /\ trace' = NoTrace
  /\ UNCHANGED <<ambient, threads, grad_mode, saved>>

\* popDynamicLayerAndDeleteMetadata, called by a transform's exit
popDynamicLayerAndDeleteMetadata ==
  /\ AtTopLevel
  /\ LET popped == popDynamicLayer(dynamicLayerStack, local_keyset)
     IN IF popped.err
        THEN /\ ctl' = "aborted" /\ error' = "internal"
             /\ UNCHANGED <<dynamicLayerStack, local_keyset, lifeHandles,
                            prev_local_keyset_>>
        ELSE /\ dynamicLayerStack' = popped.dls
             /\ local_keyset' = popped.ks
             /\ lifeHandles' = DeleteMetadata(lifeHandles, value(popped.result))
             /\ prev_local_keyset_' =
                  SnapshotOnPop(Len(popped.dls) = 0, prev_local_keyset_)
             /\ ctl' = "idle" /\ error' = "none"
  /\ frames' = <<>> /\ op' = NoOp /\ stack' = <<>> /\ trace' = NoTrace
  /\ UNCHANGED <<ambient, threads, grad_mode, saved>>

\* ------------------------------------------------------ an invocation
\* The wrappers a tensor held by the caller may carry: one stamped by a layer
\* on the stack, one stamped by the layer that exited last at a level, or a
\* BatchedTensorImpl of a batching layer on the stack.
UserCells ==
  {c \in 1..Len(lifeHandles) :
     \/ lifeHandles[c].alive
     \/ ~\E d \in (c + 1)..Len(lifeHandles) :
           ~lifeHandles[d].alive /\ lifeHandles[d].level = lifeHandles[c].level}

UserWrappers ==
  {TensorWrapper(lifeHandles[c].level, c) : c \in UserCells}
    \cup {BatchedTensorImpl(l) :
            l \in {i \in 1..Len(dynamicLayerStack) : dynamicLayerStack[i].key = kBatchedKey}}

\* wrappers nest with the level falling inwards
UserChains ==
  {ch \in UNION {[1..k -> UserWrappers] : k \in 0..MaxWrap} :
     \A i \in 1..(Len(ch) - 1) : ch[i].level > ch[i + 1].level}

UserTensors ==
  IF dynamicLayerStack = <<>> THEN {Tensor(<<>>, "x")}
  ELSE {Tensor(ch, "x") : ch \in UserChains} \cup {UndefinedTensor}

ArgLists ==
  {<<t, Scalar("s")>> : t \in UserTensors}
    \cup {<<Tensor(<<>>, "y"), t>> : t \in UserTensors}

\* the caller invokes operation o on args, above whatever the operand stack holds
callOp(o, args) ==
  /\ AtTopLevel
  /\ op' = o
  /\ stack' = <<Scalar("below")>> \o args
  /\ ctl' = "call" /\ error' = "none" /\ frames' = <<>>
  /\ trace' = [NoTrace EXCEPT !.entry = <<[dls |-> dynamicLayerStack,
                                           ks |-> local_keyset,
                                           prev |-> prev_local_keyset_,
                                           args |-> args]>>]
  /\ UNCHANGED <<dynamicLayerStack, prev_local_keyset_, local_keyset, lifeHandles,
                 ambient, threads, grad_mode, saved>>

Dispatched(handler) ==
  ctl = "call" /\ callBoxed(last(stack, Len(op.args)), local_keyset) = handler

\* dynamicLayerFrontFallback up to its op.callBoxed
dynamicLayerFrontFallback ==
  /\ Dispatched("Front")
  /\ Len(frames) < MaxFrames
  /\ trace' = [trace EXCEPT !.fronts = Append(@, Len(dynamicLayerStack))]
  /\ UNCHANGED <<dynamicLayerStack, prev_local_keyset_, lifeHandles, op, ambient, threads, grad_mode, saved>>
  /\ LET n == Len(op.args)
         front == Len(stack) - n
     IN IF Len(dynamicLayerStack) = 0
        THEN LET checked == foreachTensorInplace(stack, front, Len(stack),
                                                 sanityCheckStack(stack))
             IN IF checked.err \/ ~has_value(prev_local_keyset_)
                THEN /\ Raise("internal")
                     /\ UNCHANGED <<frames, local_keyset, stack>>
                ELSE /\ frames' = Append(frames,
                          Frame("FrontEmpty", <<local_keyset>>, {}, {}, nullopt, 0, Undefined))
                     /\ local_keyset' =
                          resetFunctorchLocalDispatchKeySet(local_keyset, prev_local_keyset_)
                     /\ UNCHANGED <<ctl, error, stack>>
        ELSE LET mutation == checkForInvalidMutationOnCaptures(op, stack, dynamicLayerStack)
                 norm == foreachTensorInplace(stack, front, Len(stack),
                                              transformGradWrappers(stack))
                 layer == back(dynamicLayerStack)
                 include_exclude == getIncludeExcludeSetsFor(layer.key)
                 args == last(norm.args, n)
                 batched == batchedAtCurrentLevelOf(args, dynamicLayerStack)
                 exclude == IF layer.key = kBatchedKey /\ ~anyTensors(args, batched)
                            THEN include_exclude.exclude \cup {kBatchedKey}
                            ELSE include_exclude.exclude
                 exclude_ == exclude \ local_keyset.excluded
                 include_ == include_exclude.include \ local_keyset.included
             IN IF mutation
                THEN /\ Raise("mutation")
                     /\ UNCHANGED <<frames, local_keyset, stack>>
                ELSE IF norm.err \/ include_exclude.err
                THEN /\ Raise("internal")
                     /\ stack' = norm.args
                     /\ UNCHANGED <<frames, local_keyset>>
                ELSE /\ stack' = norm.args
                     /\ frames' = Append(frames,
                          Frame("Front", nullopt, exclude_, include_, nullopt,
                                layer.layerId, layer.key))
                     /\ local_keyset' = [included |-> local_keyset.included \cup include_,
                                         excluded |-> local_keyset.excluded \cup exclude_]
                     /\ UNCHANGED <<ctl, error>>

\* guards of which only exclude_guard is undone
FrontGuardsDtorExcludeOnly(f, ks) ==
  IF f.fn = "FrontEmpty" THEN value(f.saved_keyset_)
  ELSE [included |-> ks.included, excluded |-> ks.excluded \ f.exclude_]

\* the destructors of the front interceptor's guards: include_guard and
\* exclude_guard take back the keys they added, the empty-stack path's
\* ForceLocalDispatchKeySet forces the key set it saved
FrontGuardsDtor(f, ks) ==
  IF f.fn = "FrontEmpty" THEN value(f.saved_keyset_)
  ELSE [included |-> ks.included \ f.include_,
        excluded |-> ks.excluded \ f.exclude_]

\* dynamicLayerFrontFallback from its op.callBoxed on: the guards' destructors
FrontReturn ==
  /\ ctl \in {"return", "throw"}
  /\ frames # <<>>
  /\ back(frames).fn \in {"Front", "FrontEmpty"}
  /\ local_keyset' = FrontGuardsDtor(back(frames), local_keyset)
  /\ frames' = pop_back(frames)
  /\ ctl' = Settle(ctl, error, pop_back(frames))
  /\ UNCHANGED <<dynamicLayerStack, prev_local_keyset_, lifeHandles, error, op,
                 stack, trace, ambient, threads, grad_mode, saved>>

\* c10::AutoGradMode guard(*prev_grad_mode), built only for a differentiation
\* layer entered with differentiation disabled: it keeps the mode it finds and
\* sets the mode to prev_grad_mode
AutoGradMode(cur_key, prev_grad_mode, mode) ==
  IF cur_key = Autograd /\ value(prev_grad_mode) = FALSE
  THEN [guard |-> <<mode>>, mode |-> value(prev_grad_mode)]
  ELSE [guard |-> nullopt, mode |-> mode]

\* dynamicLayerBackFallback up to its op.callBoxed
dynamicLayerBackFallback ==
  /\ Dispatched("Back")
  /\ UNCHANGED <<prev_local_keyset_, lifeHandles, op, trace, ambient, threads, saved>>
  /\ IF Len(dynamicLayerStack) = 0
     THEN /\ Raise("internal")
          /\ UNCHANGED <<dynamicLayerStack, local_keyset, frames, stack, grad_mode>>
     ELSE LET layer == back(dynamicLayerStack)
              cur_level == layer.layerId
              cur_key == layer.key
              prev_grad_mode == layer.prevGradMode
              n == Len(op.args)
              copy == IF cur_key = Autograd THEN stack \o last(stack, n) ELSE stack
              unwrapped ==
                IF cur_key = Autograd
                THEN foreachTensorInplace(copy, Len(copy) - n, Len(copy),
                                          unwrapArgs(copy, cur_level))
                ELSE [err |-> FALSE, args |-> copy]
              popped == popDynamicLayer(dynamicLayerStack, local_keyset)
              repushed == pushDynamicLayer(layer, popped.dls, popped.ks, prev_local_keyset_)
          IN IF cur_key = Autograd /\ ~has_value(prev_grad_mode)
             THEN /\ Raise("internal")
                  /\ UNCHANGED <<dynamicLayerStack, local_keyset, frames, stack, grad_mode>>
             ELSE IF unwrapped.err \/ popped.err
             THEN /\ Raise("internal")
                  /\ stack' = unwrapped.args
                  /\ UNCHANGED <<dynamicLayerStack, local_keyset, frames, grad_mode>>
             ELSE IF ~has_value(prev_local_keyset_)
             THEN \* the reset's assertion fails; WithoutTop's destructor runs
                  /\ error' = "internal"
                  /\ ctl' = IF repushed.err THEN "aborted"
                            ELSE Settle("throw", "internal", frames)
                  /\ dynamicLayerStack' = repushed.dls
                  /\ local_keyset' = repushed.ks
                  /\ stack' = unwrapped.args
                  /\ UNCHANGED <<frames, grad_mode>>
             ELSE /\ frames' = Append(frames,
                       [Frame("Back", <<popped.ks>>, {}, {}, <<layer>>, cur_level, cur_key)
                          EXCEPT !.guard_ = AutoGradMode(cur_key, prev_grad_mode,
                                                         grad_mode).guard])
                  /\ grad_mode' = AutoGradMode(cur_key, prev_grad_mode, grad_mode).mode
                  /\ dynamicLayerStack' = popped.dls
                  /\ local_keyset' =
                       setDynamicLayerFrontBackKeysIncluded(
                         resetFunctorchLocalDispatchKeySet(popped.ks, prev_local_keyset_),
                         TRUE)
                  /\ stack' = unwrapped.args
                  /\ UNCHANGED <<ctl, error>>

\* a back interceptor that re-pushes after its call only when the call returned
WithoutTopDtorOnReturn(f, dls, prev) ==
  IF ctl = "throw"
  THEN [err |-> FALSE, dls |-> dls, ks |-> value(f.saved_keyset_)]
  ELSE pushDynamicLayer(value(f.layer_), dls, value(f.saved_keyset_), prev)

\* a back interceptor that does not re-push
WithoutTopDtorSkipped(f, dls, prev) ==
  [err |-> FALSE, dls |-> dls, ks |-> value(f.saved_keyset_)]

\* a back interceptor that puts back a descriptor made anew for the level
WithoutTopDtorNewDescriptor(f, dls, prev) ==
  pushDynamicLayer(DynamicLayer(value(f.layer_).key, value(f.layer_).layerId, nullopt,
                                value(f.layer_).prevGradMode, value(f.layer_).life_handle),
                   dls, value(f.saved_keyset_), prev)

\* ~WithoutTop, run after key_guard's destructor has forced the saved key set
WithoutTopDtor(f, dls, prev) ==
  pushDynamicLayer(value(f.layer_), dls, value(f.saved_keyset_), prev)

\* a back interceptor whose guard leaves the mode it set
AutoGradModeDtorSkipped(f, mode) == mode

\* ~AutoGradMode: the mode the guard found, when the guard was built
AutoGradModeDtor(f, mode) ==
  IF has_value(f.guard_) THEN value(f.guard_) ELSE mode

\* dynamicLayerBackFallback from its op.callBoxed on: the destructors of the
\* AutoGradMode guard, of key_guard and of WithoutTop, then steps 4 to 6
BackReturn ==
  /\ ctl \in {"return", "throw"}
  /\ frames # <<>>
  /\ back(frames).fn = "Back"
  /\ UNCHANGED <<prev_local_keyset_, lifeHandles, op, trace, ambient, threads, saved>>
  /\ frames' = pop_back(frames)
  /\ grad_mode' = AutoGradModeDtor(back(frames), grad_mode)
  /\ LET f == back(frames)
         repushed == WithoutTopDtor(f, dynamicLayerStack, prev_local_keyset_)
         ret_size == Len(op.rets)
         args_size == Len(op.args)
         wrapped == foreachTensorInplace(stack, Len(stack) - ret_size, Len(stack),
                                         wrapRets(stack, f.cur_level, repushed.dls))
         erased == SubSeq(wrapped.args, 1, Len(wrapped.args) - args_size - ret_size)
                     \o last(wrapped.args, ret_size)
     IN /\ dynamicLayerStack' = repushed.dls
        /\ local_keyset' = repushed.ks
        /\ IF repushed.err
           THEN \* an assertion failing in a destructor ends the process
                ctl' = "aborted" /\ error' = "internal" /\ UNCHANGED stack
           ELSE IF ctl = "throw"
           THEN ctl' = Settle(ctl, error, pop_back(frames)) /\ UNCHANGED <<error, stack>>
           ELSE IF f.cur_key # Autograd
           THEN UNCHANGED <<ctl, error, stack>>
           ELSE IF wrapped.err
           THEN /\ error' = "internal"
                /\ ctl' = Settle("throw", "internal", pop_back(frames))
                /\ stack' = wrapped.args
           ELSE stack' = erased /\ UNCHANGED <<ctl, error>>

\* unwrapTensorAtLevel: the value under a BatchedTensorImpl of that level
unwrapTensorAtLevel(tensor, lvl) ==
  LET batched == maybeGetBatchedImpl(tensor)
  IN IF has_value(batched) /\ value(batched).level = lvl THEN inner(tensor) ELSE tensor

\* the plumbing unwraps the tensors of a list argument one by one
unwrapArgAtLevel(ivalue, lvl) ==
  IF isTensor(ivalue) THEN unwrapTensorAtLevel(ivalue, lvl)
  ELSE IF isList(ivalue)
  THEN [ivalue EXCEPT !.elems =
          [j \in 1..Len(ivalue.elems) |->
             IF isTensor(ivalue.elems[j])
             THEN unwrapTensorAtLevel(ivalue.elems[j], lvl)
             ELSE ivalue.elems[j]]]
  ELSE ivalue

\* makeBatched: the result of a batching rule, batched at that level
makeBatched(tensor, lvl) ==
  IF defined(tensor) THEN [tensor EXCEPT !.w = <<BatchedTensorImpl(lvl)>> \o @]
  ELSE tensor

\* a batching rule's plumbing up to its call of the operation on the unwrapped values
BatchRulePlumbing ==
  /\ Dispatched("Batched")
  /\ UNCHANGED <<dynamicLayerStack, prev_local_keyset_, lifeHandles, op, trace,
                 ambient, threads, grad_mode, saved>>
  /\ IF Len(dynamicLayerStack) = 0
     THEN Raise("internal") /\ UNCHANGED <<local_keyset, frames, stack>>
     ELSE LET cur_level == back(dynamicLayerStack).layerId
              front == Len(stack) - Len(op.args)
              exclude_ == {kBatchedKey} \ local_keyset.excluded
          IN /\ stack' = [i \in 1..Len(stack) |->
                            IF i > front THEN unwrapArgAtLevel(stack[i], cur_level)
                            ELSE stack[i]]
             /\ frames' = Append(frames,
                  Frame("Batched", nullopt, exclude_, {}, nullopt, cur_level, kBatchedKey))
             /\ local_keyset' = [local_keyset EXCEPT !.excluded = @ \cup exclude_]
             /\ UNCHANGED <<ctl, error>>

\* the plumbing once that call is over: the results are batched at the level
BatchRuleReturn ==
  /\ ctl \in {"return", "throw"}
  /\ frames # <<>>
  /\ back(frames).fn = "Batched"
  /\ LET f == back(frames)
         ret_front == Len(stack) - Len(op.rets)
     IN /\ local_keyset' = [local_keyset EXCEPT !.excluded = @ \ f.exclude_]
        /\ stack' = IF ctl = "throw" THEN stack
                    ELSE [i \in 1..Len(stack) |->
                            IF i > ret_front /\ isTensor(stack[i])
                            THEN makeBatched(stack[i], f.cur_level)
                            ELSE stack[i]]
  /\ frames' = pop_back(frames)
  /\ ctl' = Settle(ctl, error, pop_back(frames))
  /\ UNCHANGED <<dynamicLayerStack, prev_local_keyset_, lifeHandles, error, op, trace,
                 ambient, threads, grad_mode, saved>>

\* the operation's results: a return annotated (a!) is the argument written
\* to, any other return is a new plain tensor
Returns(o, args) ==
  [j \in 1..Len(o.rets) |->
     IF o.rets[j] = "write"
     THEN args[CHOOSE i \in 1..Len(o.args) : o.args[i] = "write"]
     ELSE Tensor(<<>>, "r")]

\* the operation's own kernel: it replaces the arguments by the results, or throws
Kernel ==
  /\ Dispatched("Kernel")
  /\ UNCHANGED <<dynamicLayerStack, prev_local_keyset_, local_keyset, lifeHandles,
                 frames, op, ambient, threads, grad_mode, saved>>
  /\ \/ /\ stack' = SubSeq(stack, 1, Len(stack) - Len(op.args))
                      \o Returns(op, last(stack, Len(op.args)))
        /\ ctl' = "return"
        /\ trace' = [trace EXCEPT !.body = <<[ks |-> local_keyset,
                                               dls |-> dynamicLayerStack,
                                               args |-> last(stack, Len(op.args)),
                                               grad |-> grad_mode]>>,
                                  !.bodies = @ + 1]
        /\ UNCHANGED error
     \/ /\ Raise("op")
        /\ UNCHANGED <<stack, trace>>

\* ------------------------------------------------------------ initial state
\* ------------------------------------------------------------------ threads
\* FuncTorchTLS, the c10 key set and the call in flight belong to a thread.
\* The variables above are the running thread's; the other thread's are kept
\* in threads.parked while it does not run.
DefaultKeySet == [included |-> {ADInplaceOrView, "BackendSelect"}, excluded |-> {}]

ThreadState(dls, prev, ks, fs, c, err, o, stk, tr, amb, grad) ==
  [dynamicLayerStack |-> dls, prev_local_keyset_ |-> prev, local_keyset |-> ks,
   frames |-> fs, ctl |-> c, error |-> err, op |-> o, stack |-> stk, trace |-> tr,
   ambient |-> amb, grad_mode |-> grad]

\* a thread that has not touched functorch yet: getRawFunctorchTLS makes its
\* FuncTorchTLS on first use
NewThread ==
  ThreadState(<<>>, nullopt, DefaultKeySet, <<>>, "idle", "none", NoOp, <<>>, NoTrace,
              DefaultKeySet, TRUE)

RunningThread ==
  ThreadState(dynamicLayerStack, prev_local_keyset_, local_keyset, frames, ctl, error,
              op, stack, trace, ambient, grad_mode)

\* The thread's dispatch keys before any transform is entered: the default
\* (ADInplaceOrView included), a caller below autograd, and a caller that has
\* switched an unrelated key on and another off.
AmbientKeySets ==
  { [included |-> {ADInplaceOrView, "BackendSelect"}, excluded |-> {}],
    [included |-> {"BackendSelect"},
     excluded |-> autograd_dispatch_keyset \cup {ADInplaceOrView}],
    [included |-> {ADInplaceOrView, "Tracer"}, excluded |-> {"AutocastCPU"}] }

Init ==
  /\ dynamicLayerStack = <<>>
  /\ prev_local_keyset_ = nullopt
  /\ local_keyset \in AmbientKeySets
  /\ lifeHandles = <<>>
  /\ frames = <<>>
  /\ ctl = "idle"
  /\ error = "none"
  /\ op = NoOp
  /\ stack = <<>>
  /\ trace = NoTrace
  /\ ambient = local_keyset
  /\ threads = [running |-> 1, parked |-> NewThread]
  /\ grad_mode = TRUE
  /\ saved = nullopt

EnterTransform ==
  AtTopLevel /\ \E a \in { <<Autograd, nullopt, <<TRUE>> >>,
             <<Autograd, nullopt, nullopt>>, <<kBatchedKey, <<2>>, nullopt>>,
             <<Undefined, nullopt, nullopt>>, <<OtherKey, nullopt, nullopt>> } :
    initAndPushDynamicLayer(a[1], a[2], a[3])

ExitTransform == popDynamicLayerAndDeleteMetadata

\* the caller takes the result, or catches the exception, and goes on
callReturns ==
  /\ Completed
  /\ ctl' = "idle" /\ error' = "none" /\ op' = NoOp /\ stack' = <<>> /\ trace' = NoTrace
  /\ UNCHANGED <<dynamicLayerStack, prev_local_keyset_, local_keyset, lifeHandles,
                 frames, ambient, threads, grad_mode, saved>>

Invoke == AtTopLevel /\ \E o \in Ops : \E args \in ArgLists : callOp(o, args)

Next ==
  \/ EnterTransform
  \/ ExitTransform
  \/ Invoke
  \/ callReturns
  \/ dynamicLayerFrontFallback
  \/ FrontReturn
  \/ dynamicLayerBackFallback
  \/ BackReturn
  \/ BatchRulePlumbing
  \/ BatchRuleReturn
  \/ Kernel

Spec == Init /\ [][Next]_vars

\* ------------------------------------------- invocations with list arguments
\* ------------------------------------------------------------- two threads
\* one FuncTorchTLS for the whole process: the state the last thread left
functorchTLSAccessorProcessWide(mine, other) ==
  [dynamicLayerStack |-> other.dynamicLayerStack,
   prev_local_keyset_ |-> other.prev_local_keyset_]

\* functorchTLSAccessor / getRawFunctorchTLS: the FuncTorchTLS of the calling
\* thread, whatever the thread that ran last (other) has done to its own
functorchTLSAccessor(mine, other) ==
  [dynamicLayerStack |-> mine.dynamicLayerStack,
   prev_local_keyset_ |-> mine.prev_local_keyset_]

\* the scheduler takes the running thread off and lets the other thread go on
\* where it was; a failed internal assertion has ended the process
SwitchThread ==
  /\ ctl # "aborted"
  /\ LET mine == threads.parked
         tls == functorchTLSAccessor(mine, RunningThread)
     IN /\ dynamicLayerStack' = tls.dynamicLayerStack
        /\ prev_local_keyset_' = tls.prev_local_keyset_
        /\ local_keyset' = mine.local_keyset
        /\ frames' = mine.frames
        /\ ctl' = mine.ctl
        /\ error' = mine.error
        /\ op' = mine.op
        /\ stack' = mine.stack
        /\ trace' = mine.trace
        /\ ambient' = mine.ambient
        /\ grad_mode' = mine.grad_mode
        /\ threads' = [running |-> 3 - threads.running, parked |-> RunningThread]
  /\ UNCHANGED <<lifeHandles, saved>>

\* the two threads enter differentiation and batching transforms
EnterThreadTransform ==
  /\ AtTopLevel
  /\ Len(dynamicLayerStack) < MaxThreadDepth
  /\ Len(lifeHandles) < MaxThreadLayers
  /\ \E a \in { <<Autograd, nullopt, <<TRUE>> >>, <<kBatchedKey, <<2>>, nullopt>> } :
       initAndPushDynamicLayer(a[1], a[2], a[3])

\* and call add_ on a tensor that is plain or has one wrapper
ThreadOps == {o \in Ops : o.name = "add_"}
ThreadArgLists ==
  {<<t, Scalar("s")>> : t \in {u \in UserTensors : defined(u) /\ Len(u.w) <= 1}}

InvokeThread ==
  AtTopLevel /\ \E o \in ThreadOps : \E args \in ThreadArgLists : callOp(o, args)

\* both threads start with the default key set
InitT == Init /\ local_keyset = DefaultKeySet

NextT ==
  \/ EnterThreadTransform
  \/ ExitTransform
  \/ InvokeThread
  \/ callReturns
  \/ dynamicLayerFrontFallback
  \/ FrontReturn
  \/ dynamicLayerBackFallback
  \/ BackReturn
  \/ BatchRulePlumbing
  \/ BatchRuleReturn
  \/ Kernel
  \/ SwitchThread

SpecT == InitT /\ [][NextT]_vars

\* ------------------------------------------------------------- progress
\* A handler that has been called runs, and one whose callee has returned or
\* thrown goes on: the thread executes the invocation it is in.  What the
\* caller does between invocations is up to the caller.
Progress ==
  /\ WF_vars(dynamicLayerFrontFallback)
  /\ WF_vars(FrontReturn)
  /\ WF_vars(dynamicLayerBackFallback)
  /\ WF_vars(BackReturn)
  /\ WF_vars(BatchRulePlumbing)
  /\ WF_vars(BatchRuleReturn)
  /\ WF_vars(Kernel)

\* one thread entering differentiation and batching transforms and invoking
\* the operations, under Progress
NextF ==
  \/ EnterThreadTransform
  \/ ExitTransform
  \/ Invoke
  \/ callReturns
  \/ dynamicLayerFrontFallback
  \/ FrontReturn
  \/ dynamicLayerBackFallback
  \/ BackReturn
  \/ BatchRulePlumbing
  \/ BatchRuleReturn
  \/ Kernel

SpecF == InitT /\ [][NextF]_vars /\ Progress

\* ------------------------------------------------- setDynamicLayerStack
\* setDynamicLayerStack, called from the operation's body with the stack that
\* getDynamicLayerStack gave when the operation was invoked: the body runs
\* below the back interceptors, which have popped their layers for the call
setDynamicLayerStack ==
  /\ Dispatched("Kernel")
  /\ frames # <<>>
  /\ dynamicLayerStack # trace.entry[1].dls
  /\ dynamicLayerStack' = trace.entry[1].dls
  /\ UNCHANGED <<prev_local_keyset_, local_keyset, lifeHandles, frames, ctl, error, op,
                 stack, trace, ambient, threads, grad_mode, saved>>

NextS ==
  \/ EnterTransform
  \/ ExitTransform
  \/ Invoke
  \/ callReturns
  \/ dynamicLayerFrontFallback
  \/ FrontReturn
  \/ dynamicLayerBackFallback
  \/ BackReturn
  \/ BatchRulePlumbing
  \/ BatchRuleReturn
  \/ Kernel
  \/ setDynamicLayerStack

SpecS == Init /\ [][NextS]_vars

\* index(Tensor self, Tensor?[] indices) and
\* index_put_(Tensor(a!) self, Tensor?[] indices, Tensor values)
ListOps ==
  { Schema("index", <<"none", "none">>, <<"none">>),
    Schema("index_put_", <<"write", "none", "none">>, <<"write">>) }

ListArgLists(o) ==
  IF o.name = "index"
  THEN {<<t, List(<<Scalar("None"), Tensor(<<>>, "y")>>)>> : t \in UserTensors}
         \cup {<<Tensor(<<>>, "y"), List(<<Scalar("None"), t>>)>> : t \in UserTensors}
         \cup {<<Tensor(<<>>, "y"), List(<<t, Tensor(<<>>, "y")>>)>> : t \in UserTensors}
  ELSE {<<t, List(<<Scalar("None"), t>>), Tensor(<<>>, "v")>> : t \in UserTensors}

InvokeList ==
  AtTopLevel /\ \E o \in ListOps : \E args \in ListArgLists(o) : callOp(o, args)

NextL ==
  \/ EnterTransform
  \/ ExitTransform
  \/ InvokeList
  \/ callReturns
  \/ dynamicLayerFrontFallback
  \/ FrontReturn
  \/ dynamicLayerBackFallback
  \/ BackReturn
  \/ BatchRulePlumbing
  \/ BatchRuleReturn
  \/ Kernel

SpecL == Init /\ [][NextL]_vars

\* ---------------------------------------------------- differentiation mode
\* c10::GradMode::set_enabled, as torch.no_grad() and torch.enable_grad() call
\* it between two invocations
set_enabled(enabled) ==
  /\ AtTopLevel
  /\ grad_mode # enabled
  /\ grad_mode' = enabled
  /\ UNCHANGED <<dynamicLayerStack, prev_local_keyset_, local_keyset, lifeHandles, frames,
                 ctl, error, op, stack, trace, ambient, threads, saved>>

SetGradMode == \E enabled \in BOOLEAN : set_enabled(enabled)

\* differentiation layers entered with differentiation enabled, disabled and
\* not recorded, and batching layers
EnterGradTransform ==
  /\ AtTopLevel
  /\ Len(dynamicLayerStack) < MaxThreadDepth
  /\ Len(lifeHandles) < MaxThreadLayers
  /\ \E a \in { <<Autograd, nullopt, <<TRUE>> >>, <<Autograd, nullopt, <<FALSE>> >>,
                <<Autograd, nullopt, nullopt>>, <<kBatchedKey, <<2>>, nullopt>> } :
       initAndPushDynamicLayer(a[1], a[2], a[3])

NextG ==
  \/ EnterGradTransform
  \/ ExitTransform
  \/ SetGradMode
  \/ InvokeThread
  \/ callReturns
  \/ dynamicLayerFrontFallback
  \/ FrontReturn
  \/ dynamicLayerBackFallback
  \/ BackReturn
  \/ BatchRulePlumbing
  \/ BatchRuleReturn
  \/ Kernel

SpecG == InitT /\ [][NextG]_vars

\* ------------------------------------- saving and reinstalling the stack
\* getDynamicLayerStack: the thread's stack, by reference
getDynamicLayerStack(dls) == dls

\* a caller keeps a copy of the stack, between invocations or in an
\* operation's body
saveDynamicLayerStack ==
  /\ AtTopLevel \/ Dispatched("Kernel")
  /\ saved # <<getDynamicLayerStack(dynamicLayerStack)>>
  /\ saved' = <<getDynamicLayerStack(dynamicLayerStack)>>
  /\ UNCHANGED <<dynamicLayerStack, prev_local_keyset_, local_keyset, lifeHandles, frames,
                 ctl, error, op, stack, trace, ambient, threads, grad_mode>>

\* an assignment that also switches the mode keys as a push or a pop would
dynamicLayerStackAssignedWithKeys(stack_, dls, prev, ks) ==
  [dls |-> stack_, prev |-> prev,
   ks |-> setDynamicLayerFrontBackKeysIncluded(ks, Len(stack_) > 0)]

\* dynamicLayerStackAccessor() = stack: the vector is assigned, and nothing
\* else of the thread's state is touched
dynamicLayerStackAssigned(stack_, dls, prev, ks) ==
  [dls |-> stack_, prev |-> prev, ks |-> ks]

\* setDynamicLayerStack called with the copy
reinstallDynamicLayerStack ==
  /\ AtTopLevel \/ Dispatched("Kernel")
  /\ has_value(saved)
  /\ dynamicLayerStack # value(saved)
  /\ LET tls == dynamicLayerStackAssigned(value(saved), dynamicLayerStack,
                                          prev_local_keyset_, local_keyset)
     IN /\ dynamicLayerStack' = tls.dls
        /\ prev_local_keyset_' = tls.prev
        /\ local_keyset' = tls.ks
  /\ UNCHANGED <<lifeHandles, frames, ctl, error, op, stack, trace, ambient, threads,
                 grad_mode, saved>>

NextR ==
  \/ EnterThreadTransform
  \/ ExitTransform
  \/ saveDynamicLayerStack
  \/ reinstallDynamicLayerStack
  \/ InvokeThread
  \/ callReturns
  \/ dynamicLayerFrontFallback
  \/ FrontReturn
  \/ dynamicLayerBackFallback
  \/ BackReturn
  \/ BatchRulePlumbing
  \/ BatchRuleReturn
  \/ Kernel

SpecR == InitT /\ [][NextR]_vars

\* ------------------------------------------------------------- properties
\* where the caller is: between invocations, or with an invocation just over
OutsideInterceptors == frames = <<>> /\ ctl \in {"idle", "return", "throw"}

\* the layers that were pushed and not yet removed by
\* popDynamicLayerAndDeleteMetadata: those on the stack and those a back
\* interceptor frame holds while its call runs
LayersInFlight ==
  {dynamicLayerStack[i] : i \in 1..Len(dynamicLayerStack)}
    \cup {value(frames[i].layer_) :
            i \in {j \in 1..Len(frames) : frames[j].fn = "Back"}}

\* C1: in every state, whatever pushes, pops and interceptor runs led to it,
\* the i-th layer of the Layer Stack counted from the bottom has level i, so
\* the levels rise strictly from the bottom to the top, no two layers share a
\* level, and the size of a non-empty stack is the level of its top layer.
C1_LevelIsPosition ==
  /\ \A i \in 1..Len(dynamicLayerStack) : dynamicLayerStack[i].layerId = i
  /\ \A i, j \in 1..Len(dynamicLayerStack) :
        i < j => dynamicLayerStack[i].layerId < dynamicLayerStack[j].layerId
  /\ dynamicLayerStack # <<>> =>
        Len(dynamicLayerStack) = back(dynamicLayerStack).layerId

\* two layers, the upper one entered after an earlier layer had exited, and an
\* invocation that went through both interceptors of each and came back
C1_Witness ==
  /\ Completed /\ ctl = "return" /\ trace.bodies = 1
  /\ Len(dynamicLayerStack) = 2
  /\ \E c \in 1..Len(lifeHandles) : ~lifeHandles[c].alive

C3_LifeHandle ==
  /\ [](\A c \in 1..Len(lifeHandles) :
          lifeHandles[c].alive <=> \E layer \in LayersInFlight : layer.life_handle = c)
  /\ [][\A c \in 1..Len(lifeHandles) :
          ~lifeHandles[c].alive => ~lifeHandles'[c].alive]_vars

\* a layer has exited and a new layer is on the stack at the level it had
C3_Witness ==
  \E c, d \in 1..Len(lifeHandles) :
    /\ c < d
    /\ lifeHandles[c].level = lifeHandles[d].level
    /\ ~lifeHandles[c].alive
    /\ lifeHandles[d].alive
    /\ \E i \in 1..Len(dynamicLayerStack) : dynamicLayerStack[i].life_handle = d

\* the operation writes to its first argument in place: its schema is mutable,
\* its one return is the written first argument, no other argument is aliased
MutatesFirstArgument(o) ==
  /\ o.args # <<>> /\ o.args[1] = "write"
  /\ \A i \in 2..Len(o.args) : o.args[i] = "none"
  /\ Len(o.rets) = 1 /\ o.rets[1] = "write"

\* the first argument, a dead outermost wrapper taken off, carries a wrapper
\* of the top layer's level (a dead wrapper reports no level)
FirstArgumentAtTopLevel ==
  LET w == stack[ArgsFront(stack, op) + 1].w
      stripped == IF w # <<>> /\ w[1].kind = "Grad" /\ ~lifeHandles[w[1].life].alive
                  THEN Tail(w) ELSE w
  IN /\ stripped # <<>>
     /\ stripped[1].kind = "Grad"
     /\ lifeHandles[stripped[1].life].alive
     /\ stripped[1].level = back(dynamicLayerStack).layerId

\* C4: a run of the front interceptor on a non-empty Layer Stack raises the
\* mutation-of-captured-value error exactly when the top layer is of the
\* Differentiation kind, the operation is an in-place mutation of its first
\* argument, and that argument, after a dead outermost wrapper is taken off,
\* carries no wrapper of the top layer's level; the error is raised before any
\* argument is rewritten and before the operation's body runs, and it is never
\* raised under a top layer of another kind.
C4_MutationCheck ==
  [][(Dispatched("Front") /\ dynamicLayerStack # <<>>) =>
       LET fails == /\ back(dynamicLayerStack).key = Autograd
                    /\ MutatesFirstArgument(op)
                    /\ ~FirstArgumentAtTopLevel
       IN /\ (error' = "mutation") <=> fails
          /\ fails => /\ ctl' = "throw"
                      /\ stack' = stack
                      /\ frames' = frames
                      /\ local_keyset' = local_keyset
                      /\ dynamicLayerStack' = dynamicLayerStack
                      /\ trace'.bodies = 0]_vars

\* the error raised by the front interceptor of the lower layer, whose frame
\* is under the back interceptor of the upper one
C4_Witness ==
  /\ ctl = "throw" /\ error = "mutation"
  /\ Len(frames) = 2 /\ back(frames).fn = "Back"
  /\ trace.bodies = 0

\* C5: when the mutation error reaches the caller through the interceptor
\* frames that were open, the Layer Stack, the thread's key set and the saved
\* snapshot are what they were when the caller invoked the operation, and the
\* operation's body has not run.
C5_MutationErrorRestores ==
  (Completed /\ ctl = "throw" /\ error = "mutation") =>
    /\ dynamicLayerStack = trace.entry[1].dls
    /\ local_keyset = trace.entry[1].ks
    /\ prev_local_keyset_ = trace.entry[1].prev
    /\ trace.bodies = 0

\* the error was raised by the second front interceptor run, under a
\* temporarily popped layer, and has reached the caller
C5_Witness ==
  /\ Completed /\ ctl = "throw" /\ error = "mutation"
  /\ Len(trace.fronts) = 2
  /\ Len(dynamicLayerStack) = 2

\* C6: once every entered transform has exited, the thread's key set is the
\* one it had before the first transform was entered, whatever was invoked in
\* between, and no snapshot is kept.
C6_AmbientRestored ==
  (OutsideInterceptors /\ dynamicLayerStack = <<>>) =>
    /\ local_keyset = ambient
    /\ prev_local_keyset_ = nullopt

\* nested transforms were entered and all have exited
C6_Witness ==
  /\ AtTopLevel
  /\ dynamicLayerStack = <<>>
  /\ \E c, d \in 1..Len(lifeHandles) : lifeHandles[c].level < lifeHandles[d].level
  /\ \A c \in 1..Len(lifeHandles) : ~lifeHandles[c].alive

\* C7: when a front interceptor frame ends, by return or by exception, the
\* thread's key set is what it was when the frame was entered, and a front
\* interceptor that throws before its call leaves the key set as it found it;
\* an exception of the call inside the frame goes on to the frame's caller.
C7_FrontRestoresKeys ==
  [][/\ (/\ frames # <<>>
         /\ back(frames).fn \in {"Front", "FrontEmpty"}
         /\ ctl \in {"return", "throw"}) =>
           /\ local_keyset' = back(frames).entry.ks
           /\ ctl = "throw" => (error' = error /\ ctl' \in {"throw", "aborted"})
           /\ ctl = "return" => ctl' = "return"
     /\ (Dispatched("Front") /\ ctl' \in {"throw", "aborted"}) =>
           local_keyset' = local_keyset]_vars

\* the operation's body threw under a batching layer, and the exception came
\* back to the caller through the front interceptor frames
C7_Witness ==
  /\ Completed /\ ctl = "throw" /\ error = "op"
  /\ Len(trace.fronts) >= 2
  /\ \E i \in 1..Len(dynamicLayerStack) : dynamicLayerStack[i].key = kBatchedKey
  /\ local_keyset = trace.entry[1].ks

\* C8: while the call a back interceptor re-dispatches runs, the Layer Stack
\* is the stack the interceptor found less its top layer (a nested back
\* interceptor finds exactly that stack, and the innermost one leaves it in
\* force); when the frame ends, by return or by exception, the Layer Stack
\* and the thread's key set are those the interceptor found, also when the
\* popped layer was the only one.
C8_BackRestoresStack ==
  /\ [](\A i \in 1..Len(frames) :
          frames[i].fn = "Back" =>
            LET nested == {j \in (i + 1)..Len(frames) : frames[j].fn = "Back"}
                during == pop_back(frames[i].entry.dls)
            IN /\ frames[i].entry.dls # <<>>
               /\ value(frames[i].layer_) = back(frames[i].entry.dls)
               /\ IF nested = {} THEN dynamicLayerStack = during
                  ELSE frames[CHOOSE j \in nested : \A k \in nested : j <= k].entry.dls
                         = during)
  /\ [][(/\ frames # <<>>
         /\ back(frames).fn = "Back"
         /\ ctl \in {"return", "throw"}) =>
           /\ dynamicLayerStack' = back(frames).entry.dls
           /\ local_keyset' = back(frames).entry.ks]_vars

\* the back interceptor of the only layer has ended and handed the result to
\* the front interceptor frame above it
C8_Witness ==
  /\ Len(frames) = 1 /\ frames[1].fn = "Front"
  /\ ctl = "return" /\ trace.bodies = 1
  /\ Len(dynamicLayerStack) = 1
  /\ areTransformsActive

\* the invocation went through the front interceptor and its body has run
BodyRanUnderTransforms == trace.body # <<>> /\ trace.fronts # <<>>

\* the front interceptor's empty-stack frame ends normally
FrontEmptyReturns ==
  frames # <<>> /\ back(frames).fn = "FrontEmpty" /\ ctl = "return"

\* C9 as stated: the key set in force while the operation's body runs, below a
\* stack of batching and differentiation layers, equals the snapshot saved
\* before the first transform was entered, and the result is returned
\* unchanged.
C9_BodyContextIsSnapshot ==
  /\ [](BodyRanUnderTransforms =>
          /\ trace.body[1].dls = <<>>
          /\ trace.body[1].ks = value(prev_local_keyset_))
  /\ [][FrontEmptyReturns => (stack' = stack /\ ctl' = "return")]_vars

\* C9, amended: the front interceptor's empty-stack path runs the operation's
\* body with the Layer Stack empty and with every functorch-tracked key as the
\* snapshot has it; the excluded set is the snapshot's, and the included set
\* is the snapshot's plus kVmapModeKey when the invocation descended through a
\* batching layer (so the two are equal below differentiation layers only);
\* the result is returned unchanged.
C9_BodyContextUpToVmapMode ==
  /\ [](BodyRanUnderTransforms =>
          LET body == trace.body[1].ks
              snapshot == value(prev_local_keyset_)
              layers == trace.entry[1].dls
              batching == \E i \in 1..Len(layers) : layers[i].key = kBatchedKey
          IN /\ trace.body[1].dls = <<>>
             /\ body.excluded = snapshot.excluded
             /\ body.included \cap all_dynlayer_keyset
                  = snapshot.included \cap all_dynlayer_keyset
             /\ body.included =
                  snapshot.included \cup (IF batching THEN {kVmapModeKey} ELSE {}))
  /\ [][FrontEmptyReturns => (stack' = stack /\ ctl' = "return")]_vars

\* the body ran below a batching layer with kVmapModeKey included, which the
\* snapshot does not have, and its result has reached the caller
C9_Witness ==
  /\ Completed /\ ctl = "return"
  /\ BodyRanUnderTransforms
  /\ kVmapModeKey \in trace.body[1].ks.included
  /\ kVmapModeKey \notin value(prev_local_keyset_).included

\* a front interceptor under a top layer of that kind has made its call
FrontCalledUnder(key) ==
  /\ frames # <<>>
  /\ back(frames).fn = "Front"
  /\ back(frames).cur_key = key
  /\ ctl = "call"

\* some tensor argument of the call is batched at the frame's level
BatchedAtFrameLevel ==
  \E i \in (ArgsFront(stack, op) + 1)..Len(stack) :
    /\ isTensor(stack[i])
    /\ stack[i].w # <<>>
    /\ stack[i].w[1].kind = "Batched"
    /\ stack[i].w[1].level = back(frames).cur_level

\* C10 as stated: for a batching top layer the router's exclude set contains
\* kBatchedKey, so the call the front interceptor re-dispatches does not enter
\* the batching rule, and its include set contains kVmapModeKey.
C10_RouterExcludesBatched ==
  FrontCalledUnder(kBatchedKey) =>
    /\ kBatchedKey \in getIncludeExcludeSetsFor(kBatchedKey).exclude
    /\ kBatchedKey \in local_keyset.excluded
    /\ ~Dispatched("Batched")
    /\ kVmapModeKey \in getIncludeExcludeSetsFor(kBatchedKey).include
    /\ kVmapModeKey \in local_keyset.included

\* C10, amended: for a batching top layer the router's exclude set does not
\* contain kBatchedKey (it holds the front mode key, the grad-wrapper key, the
\* autograd keys and ADInplaceOrView, and not the back mode key); the front
\* interceptor excludes kBatchedKey only when no tensor argument is batched at
\* the top layer's level, so the call it re-dispatches enters the batching
\* rule exactly when some tensor argument is batched at that level and goes
\* to the back interceptor otherwise; the include set is kVmapModeKey.
C10_RouterForBatching ==
  FrontCalledUnder(kBatchedKey) =>
    LET router == getIncludeExcludeSetsFor(kBatchedKey)
    IN /\ ~router.err
       /\ router.exclude = ({kDynamicLayerFrontModeKey, kGradWrapperKey, ADInplaceOrView}
                              \cup autograd_dispatch_keyset)
       /\ router.include = {kVmapModeKey}
       /\ kVmapModeKey \in local_keyset.included
       /\ router.exclude \subseteq local_keyset.excluded
       /\ (kBatchedKey \in local_keyset.excluded) <=> ~BatchedAtFrameLevel
       /\ Dispatched("Batched") <=> BatchedAtFrameLevel
       /\ Dispatched("Back") <=> ~BatchedAtFrameLevel

\* the call re-dispatched under a batching layer is about to enter the
\* batching rule
C10_Witness ==
  /\ FrontCalledUnder(kBatchedKey)
  /\ BatchedAtFrameLevel
  /\ Dispatched("Batched")
  /\ kBatchedKey \notin local_keyset.excluded

\* the tensors among the arguments of the call in progress, those inside list
\* arguments included
TensorArguments ==
  LET args == last(stack, Len(op.args))
  IN {args[i] : i \in {k \in 1..Len(args) : isTensor(args[k])}}
       \cup UNION {{args[i].elems[j] : j \in {k \in 1..Len(args[i].elems) :
                                                isTensor(args[i].elems[k])}} :
                   i \in {k \in 1..Len(args) : isList(args[k])}}

\* the tensor is a BatchedTensorImpl of that level
BatchedAt(tensor, l) ==
  tensor.w # <<>> /\ tensor.w[1].kind = "Batched" /\ tensor.w[1].level = l

\* C11: when the front interceptor re-issues the call under a batching top
\* layer at level L, kBatchedKey is excluded if and only if no tensor argument,
\* plain or inside a list argument, is a BatchedTensorImpl of level L; the call
\* enters the batching rule exactly when it is not excluded.  Tensors batched
\* at another level only, or wrapped by TensorWrappers only, leave it excluded.
C11_BatchedExcludedIffNoneAtLevel ==
  FrontCalledUnder(kBatchedKey) =>
    LET atLevel == \E t \in TensorArguments : BatchedAt(t, back(frames).cur_level)
    IN /\ kBatchedKey \in local_keyset.excluded <=> ~atLevel
       /\ Dispatched("Batched") <=> atLevel
       /\ ~atLevel => Dispatched("Back")

\* the only tensor batched at the top layer's level is inside a list argument,
\* and the re-issued call enters the batching rule
C11_Witness ==
  /\ FrontCalledUnder(kBatchedKey)
  /\ Dispatched("Batched")
  /\ \A i \in (ArgsFront(stack, op) + 1)..Len(stack) :
       isTensor(stack[i]) => ~BatchedAt(stack[i], back(frames).cur_level)
  /\ \E i \in (ArgsFront(stack, op) + 1)..Len(stack) :
       /\ isList(stack[i])
       /\ \E j \in 1..Len(stack[i].elems) :
            BatchedAt(stack[i].elems[j], back(frames).cur_level)

\* the invocation in progress (or just over) was made with one batching layer
\* on the stack and arguments that carry no wrapper
SingleBatchingLayerPlainArguments ==
  /\ trace.entry # <<>>
  /\ Len(trace.entry[1].dls) = 1
  /\ trace.entry[1].dls[1].key = kBatchedKey
  /\ \A i \in 1..Len(trace.entry[1].args) :
       /\ trace.entry[1].args[i].w = <<>>
       /\ \A j \in 1..Len(trace.entry[1].args[i].elems) :
            trace.entry[1].args[i].elems[j].w = <<>>

\* what the operation leaves on the operand stack when it is called with no
\* layer on the stack: the argument written to for a return annotated (a!), a
\* new tensor otherwise
ResultWithoutTransforms(o, args) ==
  <<Scalar("below")>> \o
    [j \in 1..Len(o.rets) |->
       IF o.rets[j] = "write"
       THEN args[CHOOSE i \in 1..Len(args) : o.args[i] = "write"]
       ELSE Tensor(<<>>, "r")]

\* C12: with a single batching layer on the stack and arguments that are all
\* plain, the invocation behaves as one made with no transform: no batching
\* rule is entered, the operation's body runs exactly once on the same
\* arguments, the caller gets the result the operation gives without a Layer
\* Stack (or the operation's own exception), and the Layer Stack is afterwards
\* as it was.
C12_PlainUnderBatchingIsDirect ==
  SingleBatchingLayerPlainArguments =>
    /\ \A i \in 1..Len(frames) : frames[i].fn # "Batched"
    /\ ctl # "aborted"
    /\ trace.bodies <= 1
    /\ trace.body # <<>> => trace.body[1].args = trace.entry[1].args
    /\ Completed =>
         /\ dynamicLayerStack = trace.entry[1].dls
         /\ IF ctl = "return"
            THEN /\ trace.bodies = 1
                 /\ stack = ResultWithoutTransforms(op, trace.entry[1].args)
            ELSE error = "op" /\ trace.bodies = 0

\* an in-place operation on plain tensors has returned to the caller through
\* the interceptors of the only, batching, layer
C12_Witness ==
  /\ SingleBatchingLayerPlainArguments
  /\ Completed /\ ctl = "return"
  /\ op.name = "add_"
  /\ trace.fronts = <<1, 0>>
  /\ defined(trace.entry[1].args[1])

\* the front interceptor's step that normalizes the arguments and goes on to
\* its call, under a top layer of that kind
FrontProceedsUnder(key) ==
  /\ Dispatched("Front")
  /\ dynamicLayerStack # <<>>
  /\ back(dynamicLayerStack).key = key
  /\ Len(frames') = Len(frames) + 1

\* the tensor's outermost wrapper is the live TensorWrapper of that layer
WrappedBy(tensor, layer) ==
  /\ tensor.w # <<>>
  /\ tensor.w[1] = TensorWrapper(layer.layerId, layer.life_handle)
  /\ lifeHandles[layer.life_handle].alive

\* the tensor's outermost wrapper is a TensorWrapper whose layer has exited
DeadOutermost(tensor) ==
  /\ tensor.w # <<>>
  /\ tensor.w[1].kind = "Grad"
  /\ ~lifeHandles[tensor.w[1].life].alive

\* before and after normalization under a differentiation top layer, a dead
\* outermost wrapper having been dropped first: a tensor wrapped by the layer
\* is passed on as it is, any other defined tensor gets one wrapper of the
\* layer over itself
NormalizedForGrad(before, after, layer) ==
  IF ~isTensor(before) \/ ~defined(before) THEN after = before
  ELSE LET passed == IF DeadOutermost(before) THEN inner(before) ELSE before
       IN /\ WrappedBy(after, layer)
          /\ IF WrappedBy(passed, layer) THEN after = passed
             ELSE inner(after) = passed

\* before and after normalization under a batching top layer: no wrapper is
\* added, a dead outermost wrapper is dropped
NormalizedForBatching(before, after) ==
  IF ~isTensor(before) THEN after = before
  ELSE after = (IF DeadOutermost(before) THEN inner(before) ELSE before)

\* C13: when the front interceptor has normalized the arguments under a
\* differentiation top layer at level L, every defined tensor argument, also
\* inside a list argument, has the layer's live wrapper of level L outermost;
\* an argument that had it already is unchanged (not wrapped twice), any other
\* has exactly one new wrapper.  Under a batching top layer no wrapper is added.
C13_NormalizedToTopLevel ==
  /\ [](FrontCalledUnder(Autograd) =>
          \A t \in TensorArguments :
            defined(t) =>
              /\ WrappedBy(t, back(dynamicLayerStack))
              /\ t.w[1].level = back(frames).cur_level
              /\ Len(t.w) > 1 => ~WrappedBy(inner(t), back(dynamicLayerStack)))
  /\ [][\A i \in (ArgsFront(stack, op) + 1)..Len(stack) :
          /\ FrontProceedsUnder(Autograd) =>
               /\ Len(stack') = Len(stack)
               /\ stack'[i].t = stack[i].t
               /\ Len(stack'[i].elems) = Len(stack[i].elems)
               /\ isList(stack[i])
                    \/ NormalizedForGrad(stack[i], stack'[i], back(dynamicLayerStack))
               /\ \A j \in 1..Len(stack[i].elems) :
                    NormalizedForGrad(stack[i].elems[j], stack'[i].elems[j],
                                      back(dynamicLayerStack))
          /\ FrontProceedsUnder(kBatchedKey) =>
               /\ Len(stack') = Len(stack)
               /\ stack'[i].t = stack[i].t
               /\ Len(stack'[i].elems) = Len(stack[i].elems)
               /\ isList(stack[i]) \/ NormalizedForBatching(stack[i], stack'[i])
               /\ \A j \in 1..Len(stack[i].elems) :
                    NormalizedForBatching(stack[i].elems[j], stack'[i].elems[j])]_vars

\* under a differentiation layer at level 2 a list argument holds a tensor
\* wrapped at level 2 over a wrapper of level 1: the front interceptor of the
\* upper layer found it wrapped at 2 already or wrapped it once
C13_Witness ==
  /\ FrontCalledUnder(Autograd)
  /\ back(frames).cur_level = 2
  /\ \E i \in (ArgsFront(stack, op) + 1)..Len(stack) :
       /\ isList(stack[i])
       /\ \E j \in 1..Len(stack[i].elems) :
            /\ isTensor(stack[i].elems[j])
            /\ Len(stack[i].elems[j].w) = 2
            /\ stack[i].elems[j].w[2].kind = "Grad"
            /\ stack[i].elems[j].w[2].level = 1
            /\ WrappedBy(stack[i].elems[j], back(dynamicLayerStack))

\* some wrapper of the tensor's chain is a TensorWrapper whose layer has exited
CarriesDeadWrapper(tensor) ==
  \E k \in 1..Len(tensor.w) :
    tensor.w[k].kind = "Grad" /\ ~lifeHandles[tensor.w[k].life].alive

\* the front interceptor is entered with a layer on the stack, and not for an
\* in-place operation that the mutation check rejects
FrontEnteredUnderTransforms ==
  /\ Dispatched("Front")
  /\ dynamicLayerStack # <<>>
  /\ ~checkForInvalidMutationOnCaptures(op, stack, dynamicLayerStack)

\* C14 as stated: an argument that carries a dead wrapper, also a dead wrapper
\* over a dead wrapper, falls through to the underlying value: the front
\* interceptor goes on to its call, and after its normalization no argument's
\* wrapper chain contains a dead wrapper.
C14_DeadWrappersFallThrough ==
  /\ [](\A key \in {Autograd, kBatchedKey} :
          FrontCalledUnder(key) => \A t \in TensorArguments : ~CarriesDeadWrapper(t))
  /\ [][(/\ FrontEnteredUnderTransforms
         /\ back(dynamicLayerStack).key \in {Autograd, kBatchedKey}
         /\ \A t \in TensorArguments :
              \A k \in 1..Len(t.w) :
                t.w[k].kind = "Grad" => ~lifeHandles[t.w[k].life].alive)
          => Len(frames') = Len(frames) + 1]_vars

\* the back interceptor of the top, differentiation, layer has just unwrapped
\* its copy of the arguments the caller passed
BackUnwrappedCallersArguments ==
  /\ Len(frames) = 2
  /\ frames[1].fn = "Front"
  /\ frames[2].fn = "Back"
  /\ frames[2].cur_key = Autograd
  /\ ctl = "call"

\* the argument the caller passed at that position, and what the back
\* interceptor's unwrap has made of it
PassedArgument(i) == trace.entry[1].args[i]
UnwrappedArgument(i) == stack[Len(stack) - Len(op.args) + i]

\* wrap and unwrap as functions, at the level of a differentiation layer on
\* the stack: unwrapping what wrap made gives the tensor back, and a tensor
\* whose live wrapper is of a lower level is returned as it is
UnwrapOfWrap ==
  \A l \in 1..Len(dynamicLayerStack) :
    dynamicLayerStack[l].key = Autograd =>
      \A t \in UserTensors :
        /\ (defined(t) /\ ~wrap(t, l, dynamicLayerStack).err) =>
             unwrap(wrap(t, l, dynamicLayerStack).t, l) = Ok(t)
        /\ (/\ t.w # <<>> /\ t.w[1].kind = "Grad"
            /\ lifeHandles[t.w[1].life].alive
            /\ t.w[1].level < l) => unwrap(t, l) = Ok(t)

\* C15 as stated: round trip at the level L of a differentiation layer.  A
\* value V wrapped at L by the front interceptor and unwrapped at L by the
\* back interceptor is V again; an argument that is a dead wrapper over V
\* comes out of the two as V; a wrapper of a lower level is returned unchanged
\* by the unwrap at L.
C15_RoundTrip ==
  /\ UnwrapOfWrap
  /\ BackUnwrappedCallersArguments =>
       \A i \in 1..Len(op.args) :
         (isTensor(PassedArgument(i)) /\ defined(PassedArgument(i))) =>
           IF DeadOutermost(PassedArgument(i))
           THEN UnwrappedArgument(i) = inner(PassedArgument(i))
           ELSE ~WrappedBy(PassedArgument(i), value(frames[2].layer_)) =>
                  UnwrappedArgument(i) = PassedArgument(i)

\* C15, amended: as above, except that an argument that is a dead wrapper over
\* V comes out as V only when V is not itself wrapped at L; when V carries the
\* live wrapper of level L the front interceptor adds none and the back
\* interceptor's unwrap gives V's inner value.
C15_RoundTripUnlessInnerAtLevel ==
  /\ UnwrapOfWrap
  /\ BackUnwrappedCallersArguments =>
       \A i \in 1..Len(op.args) :
         (isTensor(PassedArgument(i)) /\ defined(PassedArgument(i))) =>
           LET V == IF DeadOutermost(PassedArgument(i))
                    THEN inner(PassedArgument(i)) ELSE PassedArgument(i)
           IN IF WrappedBy(V, value(frames[2].layer_))
              THEN UnwrappedArgument(i) = inner(V)
              ELSE UnwrappedArgument(i) = V

\* the caller passed a dead wrapper over a tensor wrapped at a lower level
\* than the top layer's, and the back interceptor's copy holds that tensor
C15_Witness ==
  /\ BackUnwrappedCallersArguments
  /\ frames[2].cur_level = 2
  /\ DeadOutermost(PassedArgument(1))
  /\ Len(PassedArgument(1).w) = 2
  /\ lifeHandles[PassedArgument(1).w[2].life].alive
  /\ UnwrappedArgument(1) = inner(PassedArgument(1))

RepushFindsOtherDepth ==
  /\ ctl \in {"return", "throw"}
  /\ frames # <<>>
  /\ back(frames).fn = "Back"
  /\ value(back(frames).layer_).layerId # 1 + Len(dynamicLayerStack)

\* C17: a pop from an empty Layer Stack, and a push of a layer whose level is
\* not 1 + the depth of the stack (the back interceptor's re-push after the
\* depth has changed during its call), fail with an internal assertion, which
\* is fatal, and leave the stack as it was.
C17_ContractViolationsFatal ==
  /\ [](\A d \in 0..MaxDepth :
          \A l \in 1..(MaxDepth + 1) :
            (d <= Len(dynamicLayerStack) /\ l # d + 1) =>
              LET dls == SubSeq(dynamicLayerStack, 1, d)
                  pushed == pushDynamicLayer(
                              DynamicLayer(kBatchedKey, l, <<2>>, nullopt, 1),
                              dls, local_keyset, prev_local_keyset_)
              IN pushed.err /\ pushed.dls = dls)
  /\ [](popDynamicLayer(<<>>, local_keyset).err
          /\ popDynamicLayer(<<>>, local_keyset).dls = <<>>)
  /\ [][(popDynamicLayerAndDeleteMetadata /\ dynamicLayerStack = <<>>) =>
          /\ ctl' = "aborted" /\ error' = "internal"
          /\ dynamicLayerStack' = <<>>]_vars
  /\ [][RepushFindsOtherDepth =>
          /\ ctl' = "aborted" /\ error' = "internal"
          /\ dynamicLayerStack' = dynamicLayerStack]_vars
  /\ [][ctl = "aborted" => ctl' = "aborted"]_vars

\* the operation's body has put back the stack of two layers it was invoked
\* under, and the re-push of the lower layer's back interceptor has failed on
\* it: the stack is the one the body set
C17_Witness ==
  /\ ctl = "aborted" /\ error = "internal"
  /\ trace.bodies = 1
  /\ frames # <<>> /\ back(frames).fn = "Front"
  /\ Len(dynamicLayerStack) = 2
  /\ dynamicLayerStack = trace.entry[1].dls

\* the invocation in progress (or just over) was intercepted, under layers of
\* differentiation and batching kind, with no argument that is batched
InterceptedWithoutBatchedArguments ==
  /\ trace.entry # <<>>
  /\ trace.entry[1].dls # <<>>
  /\ \A i \in 1..Len(trace.entry[1].dls) :
       trace.entry[1].dls[i].key \in {Autograd, kBatchedKey}
  /\ \A i \in 1..Len(trace.entry[1].args) :
       \A k \in 1..Len(trace.entry[1].args[i].w) :
         trace.entry[1].args[i].w[k].kind # "Batched"

\* the invocation in progress has come to its end: the caller has the result
\* or the exception, or an internal assertion has ended the run
InvocationEnded == Completed \/ ctl = "aborted"

\* C18: an invocation intercepted under a Layer Stack of depth n (differentiation
\* layers, or batching layers with no argument batched at their level) comes to
\* an end.  The front interceptor is entered at depths n, n-1, ..., 0 in that
\* order and never twice at one depth, one back interceptor frame lies between
\* two consecutive front interceptor frames, so there are at most 2n + 1
\* frames; the body runs at most once and at depth 0, exactly once when the
\* invocation returns, and the depth is then n again.
C18_InvocationTerminates ==
  /\ [](InterceptedWithoutBatchedArguments =>
          LET n == Len(trace.entry[1].dls)
          IN /\ Len(trace.fronts) <= n + 1
             /\ \A k \in 1..Len(trace.fronts) : trace.fronts[k] = n - (k - 1)
             /\ Len(frames) <= 2 * n + 1
             /\ \A i \in 1..Len(frames) :
                  IF i % 2 = 1 THEN frames[i].fn \in {"Front", "FrontEmpty"}
                  ELSE frames[i].fn = "Back"
             /\ \A i \in 1..Len(frames) :
                  /\ frames[i].fn = "Front" => frames[i].cur_level = n - ((i - 1) \div 2)
                  /\ frames[i].fn = "Back" => frames[i].cur_level = n - ((i - 2) \div 2)
                  /\ frames[i].fn = "FrontEmpty" => i = 2 * n + 1
             /\ ctl # "aborted" => Len(dynamicLayerStack) = n - (Len(frames) \div 2)
             /\ trace.bodies <= 1
             /\ trace.bodies = 1 => trace.body[1].dls = <<>> /\ Len(trace.fronts) = n + 1
             /\ (Completed /\ ctl = "return") =>
                  trace.bodies = 1 /\ Len(dynamicLayerStack) = n)
  /\ (ctl = "call" /\ frames = <<>>) ~> InvocationEnded

\* an invocation under two layers has returned to the caller after the front
\* interceptor ran at depths 2, 1 and 0
C18_Witness ==
  /\ InterceptedWithoutBatchedArguments
  /\ Completed /\ ctl = "return"
  /\ trace.fronts = <<2, 1, 0>>
  /\ trace.bodies = 1
  /\ Len(dynamicLayerStack) = 2

\* the keys the front interceptor has switched on and off for its call
FrontIncluded == local_keyset.included \ back(frames).entry.ks.included
FrontExcluded == local_keyset.excluded \ back(frames).entry.ks.excluded

\* C19: for a differentiation and for a batching layer the router's include
\* and exclude sets are disjoint, the exclude set holds the front
\* interceptor's key and not the back interceptor's, and for a differentiation
\* layer it holds no autograd key and not ADInplaceOrView; with kBatchedKey
\* added by the front interceptor the sets are still disjoint.  For a layer of
\* any other kind the router fails with an internal assertion.
C19_RouterSets ==
  /\ [](\A key \in {Autograd, kBatchedKey} :
          LET r == getIncludeExcludeSetsFor(key)
          IN /\ ~r.err
             /\ r.include \cap r.exclude = {}
             /\ r.include \cap (r.exclude \cup {kBatchedKey}) = {}
             /\ kDynamicLayerFrontModeKey \in r.exclude
             /\ kDynamicLayerBackModeKey \notin r.exclude
             /\ key = Autograd =>
                  r.exclude \cap (autograd_dispatch_keyset \cup {ADInplaceOrView}) = {})
  /\ [](\A key \in {Undefined, OtherKey, kGradWrapperKey, kVmapModeKey} :
          getIncludeExcludeSetsFor(key).err)
  /\ [](\A key \in {Autograd, kBatchedKey} :
          FrontCalledUnder(key) =>
            /\ FrontIncluded \cap FrontExcluded = {}
            /\ kDynamicLayerFrontModeKey \in local_keyset.excluded
            /\ kDynamicLayerBackModeKey \notin local_keyset.excluded
            /\ kDynamicLayerBackModeKey \in local_keyset.included
            /\ key = Autograd =>
                 FrontExcluded \cap (autograd_dispatch_keyset \cup {ADInplaceOrView}) = {})
  /\ [][(/\ Dispatched("Front")
         /\ dynamicLayerStack # <<>>
         /\ back(dynamicLayerStack).key \notin {Autograd, kBatchedKey})
          => /\ error' = "internal"
             /\ ctl' \in {"throw", "aborted"}
             /\ UNCHANGED <<frames, local_keyset, dynamicLayerStack>>]_vars

\* under a batching layer the front interceptor has made its call with
\* kVmapModeKey switched on and kBatchedKey, which the router leaves out,
\* switched off
C19_Witness ==
  /\ FrontCalledUnder(kBatchedKey)
  /\ kVmapModeKey \in FrontIncluded
  /\ kBatchedKey \in FrontExcluded
  /\ kBatchedKey \notin getIncludeExcludeSetsFor(kBatchedKey).exclude

\* the back interceptor's step up to its call, when it goes on to the call
BackProceeds ==
  /\ Dispatched("Back")
  /\ Len(frames') = Len(frames) + 1

\* the back interceptor's step after its call has returned, when it returns
BackSucceeds ==
  /\ frames # <<>>
  /\ back(frames).fn = "Back"
  /\ ctl = "return"
  /\ ctl' = "return"

\* the effect of a successful back interceptor on the operand stack: the
\* declared returns stand in place of the arguments, above the entries that were
\* below the arguments, and no copy of the arguments is left
BackFrameEffect ==
  BackSucceeds =>
    LET f == back(frames)
        n == Len(op.args)
        r == Len(op.rets)
    IN /\ Len(stack') = f.entry.size - n + r
       /\ SubSeq(stack', 1, f.entry.size - n) = SubSeq(stack, 1, f.entry.size - n)
       /\ IF f.cur_key = Autograd
          THEN /\ Len(stack) = f.entry.size + r
               /\ \A k \in (f.entry.size - n + 1)..Len(stack') :
                    (isTensor(stack'[k]) /\ defined(stack'[k])) =>
                      /\ WrappedBy(stack'[k], value(f.layer_))
                      /\ inner(stack'[k]) = stack[k + n]
          ELSE stack' = stack

\* under a layer that is not a differentiation layer the back interceptor
\* leaves the operand stack alone before its call
BackLeavesStackUnlessGrad ==
  (BackProceeds /\ back(dynamicLayerStack).key # Autograd) => stack' = stack

\* under a differentiation layer the back interceptor pushes a copy of the
\* argument slice before its call
BackDuplicates ==
  /\ Len(stack') = Len(stack) + Len(op.args)
  /\ SubSeq(stack', 1, Len(stack)) = stack

\* C20 as stated: after a successful back interceptor the operand stack holds
\* the declared returns in place of the arguments (size = entry size - arguments
\* + returns, no copy of the arguments left, entries below unchanged); under a
\* differentiation layer the argument slice is duplicated before the call only
\* if the operation mutates its arguments in place; under any other layer
\* nothing is duplicated, unwrapped or re-wrapped.
C20_BackStackEffectInplaceOnly ==
  /\ [][BackFrameEffect]_vars
  /\ [][BackLeavesStackUnlessGrad]_vars
  /\ [][(BackProceeds /\ back(dynamicLayerStack).key = Autograd) =>
          IF is_mutable(op) THEN BackDuplicates ELSE stack' = stack]_vars

\* C20, amended: as above, except that under a differentiation layer the
\* argument slice is duplicated, and the copy unwrapped at the layer's level,
\* before the call of every operation, in-place or not.
C20_BackStackEffect ==
  /\ [][BackFrameEffect]_vars
  /\ [][BackLeavesStackUnlessGrad]_vars
  /\ [][(BackProceeds /\ back(dynamicLayerStack).key = Autograd) =>
          /\ BackDuplicates
          /\ \A i \in 1..Len(op.args) :
               LET arg == stack[Len(stack) - Len(op.args) + i]
                   copy == stack'[Len(stack) + i]
               IN IF isTensor(arg) /\ WrappedBy(arg, back(dynamicLayerStack))
                  THEN copy = inner(arg)
                  ELSE copy = arg]_vars

\* the back interceptor of a differentiation layer has returned from add, which
\* mutates nothing: the operand stack holds the entry below the arguments and
\* the wrapped result, the two arguments and their copies gone
C20_Witness ==
  /\ ctl = "return"
  /\ op.name = "add"
  /\ Len(frames) = 1 /\ frames[1].fn = "Front" /\ frames[1].cur_key = Autograd
  /\ trace.bodies = 1
  /\ Len(stack) = 2
  /\ stack[1] = Scalar("below")
  /\ WrappedBy(stack[2], back(dynamicLayerStack))

\* the tensors of the operand stack above position size, list elements included
TensorsAbove(size) ==
  {stack[k] : k \in {i \in (size + 1)..Len(stack) : isTensor(stack[i])}}
    \cup UNION {{stack[k].elems[j] : j \in {e \in 1..Len(stack[k].elems) :
                                              isTensor(stack[k].elems[e])}} :
                k \in {i \in (size + 1)..Len(stack) : isList(stack[i])}}

\* C21: under a differentiation layer at level L the back interceptor wraps
\* the returns only after ~WithoutTop has pushed the layer back.  While the
\* call it re-dispatched is in progress the layer is off the stack
\* (getLifeHandleForLevel(L) has nothing to give) and nothing the call works
\* on carries the layer's wrapper; when the back interceptor returns, the
\* layer is on the stack at level L again, the wrap has not failed, and every
\* defined tensor returned carries a live wrapper of level L that holds the
\* layer's liveness cell.
C21_WrapAfterRepush ==
  /\ [](\A i \in 1..Len(frames) :
          (frames[i].fn = "Back" /\ frames[i].cur_key = Autograd /\ ctl # "aborted") =>
            LET layer == value(frames[i].layer_)
            IN /\ ~has_value(getLifeHandleForLevel(dynamicLayerStack, layer.layerId))
               /\ lifeHandles[layer.life_handle].alive
               /\ \A t \in TensorsAbove(frames[i].entry.size) :
                    \A k \in 1..Len(t.w) :
                      t.w[k] # TensorWrapper(layer.layerId, layer.life_handle))
  /\ [][(/\ frames # <<>>
         /\ back(frames).fn = "Back"
         /\ back(frames).cur_key = Autograd
         /\ ctl = "return") =>
          LET layer == value(back(frames).layer_)
              L == layer.layerId
          IN /\ ctl' = "return"
             /\ Len(dynamicLayerStack') = L
             /\ dynamicLayerStack'[L] = layer
             /\ getLifeHandleForLevel(dynamicLayerStack', L) = <<layer.life_handle>>
             /\ lifeHandles'[layer.life_handle].alive
             /\ \A k \in (Len(stack') - Len(op.rets) + 1)..Len(stack') :
                  (isTensor(stack'[k]) /\ defined(stack'[k])) =>
                    /\ stack'[k].w[1] = TensorWrapper(L, layer.life_handle)
                    /\ inner(stack'[k]) = stack[k + Len(op.args)]]_vars

\* the back interceptor of the upper of two differentiation layers has
\* returned the result of index_put_, wrapped at level 2 with the layer's cell
\* over the wrapper of level 1 that the lower back interceptor put on it
C21_Witness ==
  /\ ctl = "return"
  /\ op.name = "index_put_"
  /\ Len(frames) = 1 /\ frames[1].fn = "Front" /\ frames[1].cur_key = Autograd
  /\ Len(dynamicLayerStack) = 2
  /\ trace.bodies = 1
  /\ Len(stack[Len(stack)].w) >= 2
  /\ stack[Len(stack)].w[1] = TensorWrapper(2, dynamicLayerStack[2].life_handle)
  /\ stack[Len(stack)].w[2] = TensorWrapper(1, dynamicLayerStack[1].life_handle)

\* a back interceptor frame of a differentiation layer that was entered with
\* differentiation disabled
ForcesGradModeOff(f) ==
  f.fn = "Back" /\ f.cur_key = Autograd /\ value(f.layer_).prevGradMode = <<FALSE>>

\* C22: while the back interceptor of a differentiation layer entered with
\* differentiation disabled has its call in flight, differentiation mode is
\* disabled, whatever it was when the interceptor was called; a back
\* interceptor with no such interceptor above it finds the mode as it was when
\* it was called; the step that ends a back interceptor, the call having
\* returned or failed, leaves the mode as it was when the interceptor was
\* called; and every differentiation layer there is records prev_grad_mode,
\* the construction of one that does not failing without a layer pushed.
C22_GradModeForcedOff ==
  /\ [](ctl # "aborted" =>
          \A i \in 1..Len(frames) :
            /\ ForcesGradModeOff(frames[i]) => grad_mode = FALSE
            /\ (/\ frames[i].fn = "Back"
                /\ \A j \in i..Len(frames) : ~ForcesGradModeOff(frames[j]))
                 => grad_mode = frames[i].entry.grad)
  /\ [][(frames # <<>> /\ back(frames).fn = "Back" /\ ctl \in {"return", "throw"})
          => /\ frames' = pop_back(frames)
             /\ grad_mode' = back(frames).entry.grad]_vars
  /\ [][(Dispatched("Back") /\ Len(frames') > Len(frames))
          => /\ ForcesGradModeOff(back(frames')) => grad_mode' = FALSE
             /\ ~ForcesGradModeOff(back(frames')) => grad_mode' = grad_mode]_vars
  /\ [](\A layer \in LayersInFlight : layer.key = Autograd => has_value(layer.prevGradMode))
  /\ [][Len(lifeHandles') > Len(lifeHandles)
          => (back(dynamicLayerStack').key = Autograd
                => has_value(back(dynamicLayerStack').prevGradMode))]_vars

C22_Witness ==
  /\ ctl = "return"
  /\ Len(frames) = 1 /\ frames[1].fn = "Front"
  /\ Len(dynamicLayerStack) = 1
  /\ dynamicLayerStack[1].key = Autograd
  /\ dynamicLayerStack[1].prevGradMode = <<FALSE>>
  /\ trace.bodies = 1
  /\ trace.body[1].grad = FALSE
  /\ frames[1].entry.grad = TRUE
  /\ grad_mode = TRUE

\* the wrappers of the tensors on the operand stack that carry the layer's cell
StampedBy(layer) ==
  UNION {{t.w[k] : k \in {n \in 1..Len(t.w) : t.w[n].kind = "Grad"
                                               /\ t.w[n].life = layer.life_handle}} :
         t \in TensorsAbove(0)}

\* C23: while a back interceptor's call is in flight, the layer it popped is
\* off the stack but its liveness cell is true and the saved snapshot is
\* present, also when the pop emptied the stack, and the wrappers on the
\* operand stack stamped with that cell are alive; a front interceptor called
\* with an empty stack finds a snapshot; no step of an invocation changes a
\* liveness cell or the snapshot; and the step that ends the back interceptor
\* puts back a descriptor with the cell, level, kind and parameters of the one
\* popped, its cell still true.
C23_TemporaryPopKeepsMetadata ==
  /\ [](\A i \in 1..Len(frames) :
          frames[i].fn = "Back" =>
            LET layer == value(frames[i].layer_)
            IN /\ lifeHandles[layer.life_handle].alive
               /\ has_value(prev_local_keyset_)
               /\ layer = back(frames[i].entry.dls)
               /\ \A wrapper \in StampedBy(layer) :
                    is_alive(wrapper) /\ level(wrapper) = <<layer.layerId>>)
  /\ []((Dispatched("Front") /\ Len(dynamicLayerStack) = 0) => has_value(prev_local_keyset_))
  /\ [][~AtTopLevel => UNCHANGED <<lifeHandles, prev_local_keyset_>>]_vars
  /\ [][(Dispatched("Back") /\ Len(frames') > Len(frames))
          => /\ dynamicLayerStack' = pop_back(dynamicLayerStack)
             /\ value(back(frames').layer_) = back(dynamicLayerStack)]_vars
  /\ [][(frames # <<>> /\ back(frames).fn = "Back" /\ ctl \in {"return", "throw"})
          => LET popped == back(back(frames).entry.dls)
                 pushed == back(dynamicLayerStack')
             IN /\ Len(dynamicLayerStack') = Len(back(frames).entry.dls)
                /\ pushed.life_handle = popped.life_handle
                /\ pushed.layerId = popped.layerId
                /\ pushed.key = popped.key
                /\ pushed.batchSize = popped.batchSize
                /\ pushed.prevGradMode = popped.prevGradMode
                /\ lifeHandles'[pushed.life_handle].alive
                /\ has_value(prev_local_keyset_')]_vars

\* the back interceptor of the only layer has emptied the stack, the front
\* interceptor called under it has taken its empty-stack path, and the
\* caller's argument still carries a wrapper of the popped layer
C23_Witness ==
  /\ ctl = "call"
  /\ Len(frames) = 3
  /\ frames[2].fn = "Back" /\ frames[3].fn = "FrontEmpty"
  /\ dynamicLayerStack = <<>>
  /\ has_value(prev_local_keyset_)
  /\ StampedBy(value(frames[2].layer_)) # {}
  /\ ~areTransformsActive

\* C24: a caller's copy of getDynamicLayerStack() is the stack of that moment,
\* and setDynamicLayerStack called with the copy leaves the Layer Stack equal
\* to it, descriptor by descriptor in the same order with the same level, key,
\* parameters and liveness cell; the step changes nothing but the stack: the
\* saved snapshot, the thread's key set (the front and back mode keys
\* included or not) and the cells are as before, whether the stack grows,
\* shrinks, becomes empty or stops being empty.
C24_SetStackVerbatim ==
  /\ [][saved' # saved =>
          /\ saved' = <<dynamicLayerStack>>
          /\ UNCHANGED <<dynamicLayerStack, prev_local_keyset_, local_keyset, lifeHandles>>]_vars
  /\ [][reinstallDynamicLayerStack =>
          /\ has_value(saved) /\ saved' = saved
          /\ Len(dynamicLayerStack') = Len(value(saved))
          /\ \A i \in 1..Len(value(saved)) :
               /\ dynamicLayerStack'[i].layerId = value(saved)[i].layerId
               /\ dynamicLayerStack'[i].life_handle = value(saved)[i].life_handle
               /\ dynamicLayerStack'[i].key = value(saved)[i].key
               /\ dynamicLayerStack'[i].batchSize = value(saved)[i].batchSize
               /\ dynamicLayerStack'[i].prevGradMode = value(saved)[i].prevGradMode
          /\ prev_local_keyset_' = prev_local_keyset_
          /\ local_keyset' = local_keyset
          /\ areTransformsActive' = areTransformsActive
          /\ tls_is_dispatch_key_included(local_keyset', kDynamicLayerFrontModeKey)
               = tls_is_dispatch_key_included(local_keyset, kDynamicLayerFrontModeKey)]_vars

\* an empty stack saved before two transforms were entered has been
\* reinstalled: the stack is empty while the mode keys are still included and
\* the snapshot is still there, which no pop leaves behind
C24_Witness ==
  /\ AtTopLevel
  /\ saved = <<dynamicLayerStack>>
  /\ dynamicLayerStack = <<>>
  /\ Len(lifeHandles) = 2
  /\ \A i \in 1..2 : lifeHandles[i].alive
  /\ areTransformsActive
  /\ tls_is_dispatch_key_included(local_keyset, kDynamicLayerFrontModeKey)
  /\ has_value(prev_local_keyset_)

====
